---- MODULE Spec2Model ----
(***************************************************************************)
(* EfsharHeshbon: grid-selection puzzle solver and generator.              *)
(*                                                                         *)
(* The module models src/backend/core_logic.py (subset matcher, column     *)
(* validators, minimal solver, board generator and its difficulty          *)
(* heuristics) and the callers in src/backend/main.py,                     *)
(* src/backend/manual_input.py, src/archive/main.py and                    *)
(* src/archive/gui_app.py.                                                 *)
(*                                                                         *)
(* Conventions.  Python lists are sequences (1-based here, so the cell the *)
(* code calls board[r][c] is board[r+1][c+1]); Python index sets keep the  *)
(* source's 0-based indices.  operator.add / operator.mul are the strings  *)
(* "add" / "mul".  float("inf") and sys.maxsize are the sentinel INF, an    *)
(* integer larger than every mark count.  None, where a mask may stand, is *)
(* the empty tuple NONE (no mask is empty).                                *)
(***************************************************************************)
EXTENDS Integers, Sequences, FiniteSets, TLC

VARIABLES fm, cv, sv, gen, ng, ev, gm, calls

vars == <<fm, cv, sv, gen, ng, ev, gm, calls>>

(***************************************************************************)
(* Bounds of the explored inputs.                                          *)
(***************************************************************************)
MaxLen == 3        \* longest value sequence handed to find_matching_subsets
MaxVal == 2        \* largest cell value of an explored input
MaxTarget == 4     \* largest target of an explored input
NRows == 2         \* rows of an explored small board
NCols == 2         \* columns of an explored small board
GenSize == 3       \* the size argument of generate_board_from_solution
LowDigit == 2      \* a random solution value is LowDigit or HighDigit and a
HighDigit == 6     \*   first-pass remaining value LowDigit, where the list allows
MaxPicks == 2      \* leading entries of top_candidates a second-pass draw picks from

NONE == <<>>
INF == 2147483647

(***************************************************************************)
(* Helpers standing for Python built-ins.                                  *)
(***************************************************************************)
Apply(op, a, b) == IF op = "mul" THEN a * b ELSE a + b

RECURSIVE ReduceFrom(_, _, _, _)
ReduceFrom(op, nums, k, acc) ==
    IF k > Len(nums) THEN acc
    ELSE ReduceFrom(op, nums, k + 1, Apply(op, acc, nums[k]))

\* functools.reduce(op, nums) on a non-empty list: a left fold from nums[0].
Reduce(op, nums) == ReduceFrom(op, nums, 2, nums[1])

\* A list built by comprehension, as an explicit tuple (f \o <<>> equals f;
\* TLC then holds the elements instead of the unevaluated comprehension).
List(f) == f \o <<>>

\* The member of a one-element set.  Only({F(x) : x \in {e}}) is F(e) with e
\* evaluated once and its value bound to x (a local "x = e" of the code).
Only(S) == CHOOSE r \in S : TRUE

RECURSIVE SumSeq(_)
SumSeq(s) == IF s = <<>> THEN 0 ELSE s[1] + SumSeq(Tail(s))

(***************************************************************************)
(* itertools.combinations(range(n), r): the r-element index tuples in      *)
(* lexicographic order, as a sequence of strictly increasing sequences.    *)
(***************************************************************************)
PrependAll(i, tuples) == List([k \in 1..Len(tuples) |-> <<i>> \o tuples[k]])

RECURSIVE CombinationsRepeating(_, _, _)
CombinationsRepeating(lo, n, r) ==
    IF r = 0 THEN << <<>> >>
    ELSE IF lo >= n THEN <<>>
    ELSE PrependAll(lo, CombinationsRepeating(lo, n, r - 1))
            \o CombinationsRepeating(lo + 1, n, r)

RECURSIVE CombinationsFrom(_, _, _)
CombinationsFrom(lo, n, r) ==
    IF r = 0 THEN << <<>> >>
    ELSE IF lo + r > n THEN <<>>
    ELSE PrependAll(lo, CombinationsFrom(lo + 1, n, r - 1))
            \o CombinationsFrom(lo + 1, n, r)

\* The order in which find_matching_subsets visits the index tuples:
\* for r in range(1, len(values) + 1): for combo in combinations(..., r).
RECURSIVE CombosUpTo(_, _, _)
CombosUpTo(n, r, last) ==
    IF r > last THEN <<>>
    ELSE CombinationsFrom(0, n, r) \o CombosUpTo(n, r + 1, last)

CombosShort(values) == CombosUpTo(Len(values), 1, Len(values) - 1)

AllCombos(values) == CombosUpTo(Len(values), 1, Len(values))

IndexSet(combo) == {combo[k] : k \in 1..Len(combo)}

NumsOf(values, combo) == List([k \in 1..Len(combo) |-> values[combo[k] + 1]])

find_matching_subsets(values, target, op) ==
    LET hits == SelectSeq(AllCombos(values),
                          LAMBDA combo : Reduce(op, NumsOf(values, combo)) = target)
    IN  List([k \in 1..Len(hits) |-> IndexSet(hits[k])])

(***************************************************************************)
(* Column validators and mark count (core_logic.py).  row_idx is the       *)
(* source's 0-based row index.                                             *)
(***************************************************************************)
\* [board[r][col] for r in range(nrows) if grid[r][col] == 1], col 1-based.
RECURSIVE MarkedColumnValues(_, _, _, _)
MarkedColumnValues(grid, board, col, nrows) ==
    IF nrows = 0 THEN <<>>
    ELSE LET above == MarkedColumnValues(grid, board, col, nrows - 1)
         IN  IF grid[nrows][col] = 1 THEN Append(above, board[nrows][col]) ELSE above

is_partial_valid_columns_reject_equal(grid, row_idx, board, target_cols, op) ==
    \A col \in 1..Len(grid[1]) :
        LET values == MarkedColumnValues(grid, board, col, row_idx + 1)
        IN  \/ values = <<>>
            \/ /\ ~(Reduce(op, values) >= target_cols[col])
               /\ ~(op = "mul" /\ Reduce(op, values) = 0 /\ target_cols[col] # 0)

is_partial_valid_columns_all_rows(grid, row_idx, board, target_cols, op) ==
    \A col \in 1..Len(grid[1]) :
        LET values == MarkedColumnValues(grid, board, col, Len(board))
        IN  \/ values = <<>>
            \/ /\ ~(Reduce(op, values) > target_cols[col])
               /\ ~(op = "mul" /\ Reduce(op, values) = 0 /\ target_cols[col] # 0)

is_partial_valid_columns(grid, row_idx, board, target_cols, op) ==
    \A col \in 1..Len(grid[1]) :
        LET values == MarkedColumnValues(grid, board, col, row_idx + 1)
        IN  \/ values = <<>>
            \/ /\ ~(Reduce(op, values) > target_cols[col])
               /\ ~(op = "mul" /\ Reduce(op, values) = 0 /\ target_cols[col] # 0)

is_valid_columns_skip_empty(grid, board, target_cols, op) ==
    \A col \in 1..Len(grid[1]) :
        LET values == MarkedColumnValues(grid, board, col, Len(board))
        IN  values = <<>> \/ Reduce(op, values) = target_cols[col]

is_valid_columns(grid, board, target_cols, op) ==
    \A col \in 1..Len(grid[1]) :
        LET values == MarkedColumnValues(grid, board, col, Len(board))
        IN  /\ values # <<>>
            /\ Reduce(op, values) = target_cols[col]

count_marked(grid) == SumSeq(List([r \in 1..Len(grid) |-> SumSeq(grid[r])]))

\* marked < best_solution[0], where best_solution[0] may be the sentinel.
Less(marked, best) == marked < best

LessOrEqual(marked, best) == marked <= best

RowOfOneBased(row_option, ncols) ==
    List([i \in 1..ncols |-> IF i \in row_option THEN 1 ELSE 0])

\* [1 if i in row_option else 0 for i in range(ncols)]
RowOf(row_option, ncols) ==
    List([i \in 1..ncols |-> IF (i - 1) \in row_option THEN 1 ELSE 0])

ZeroRow(ncols) == List([i \in 1..ncols |-> 0])

ZeroGrid(nrows, ncols) == List([r \in 1..nrows |-> ZeroRow(ncols)])

(***************************************************************************)
(* solve_minimal (core_logic.py).  The function mutates grid and           *)
(* best_solution in place; here it takes both and returns both.  The       *)
(* for-loop over row_possibilities[row_idx] is solve_minimal_loop, running *)
(* the candidates at positions lo..hi (1-based) in order: one candidate is *)
(* one pass through the loop body, a longer range is its first half        *)
(* followed by its second half from the state the first half left.         *)
(***************************************************************************)
\* The terminal branch (row_idx == len(board)): the new best_solution.
ImproveLastWins(grid, board, target_cols, op, best_solution) ==
    IF /\ is_valid_columns(grid, board, target_cols, op)
       /\ LessOrEqual(count_marked(grid), best_solution[1])
    THEN <<count_marked(grid), grid>>
    ELSE best_solution

ImproveFirstFound(grid, board, target_cols, op, best_solution) ==
    IF /\ is_valid_columns(grid, board, target_cols, op)
       /\ best_solution[2] = NONE
    THEN <<count_marked(grid), grid>>
    ELSE best_solution

ImproveUnchecked(grid, board, target_cols, op, best_solution) ==
    IF Less(count_marked(grid), best_solution[1])
    THEN <<count_marked(grid), grid>>
    ELSE best_solution

Improve(grid, board, target_cols, op, best_solution) ==
    IF /\ is_valid_columns(grid, board, target_cols, op)
       /\ Less(count_marked(grid), best_solution[1])
    THEN <<count_marked(grid), grid>>
    ELSE best_solution

RECURSIVE solve_minimal(_, _, _, _, _, _, _, _)
RECURSIVE solve_minimal_loop(_, _, _, _, _, _, _, _, _, _)
solve_minimal(grid, row_idx, board, target_rows, target_cols, op, row_possibilities, best_solution) ==
    IF row_idx = Len(board)
    THEN [grid |-> grid,
          best_solution |-> Improve(grid, board, target_cols, op, best_solution)]
    ELSE Only({[after EXCEPT !.grid[row_idx + 1] = ZeroRow(Len(board[1]))] :
            after \in {solve_minimal_loop(grid, row_idx, board, target_rows, target_cols,
                                 op, row_possibilities, best_solution,
                                 1, Len(row_possibilities[row_idx + 1]))}})

solve_minimal_loop(grid, row_idx, board, target_rows, target_cols, op, row_possibilities, best_solution, lo, hi) ==
    IF lo > hi
    THEN [grid |-> grid, best_solution |-> best_solution]
    ELSE IF lo = hi
    THEN LET new_row == RowOf(row_possibilities[row_idx + 1][lo], Len(board[1]))
             placed == [grid EXCEPT ![row_idx + 1] = new_row]
         IN  IF is_partial_valid_columns(placed, row_idx, board, target_cols, op)
             THEN solve_minimal(placed, row_idx + 1, board, target_rows,
                                target_cols, op, row_possibilities, best_solution)
             ELSE [grid |-> placed, best_solution |-> best_solution]
    ELSE LET mid == (lo + hi) \div 2
         IN  Only({solve_minimal_loop(first.grid, row_idx, board, target_rows,
                                         target_cols, op, row_possibilities,
                                         first.best_solution, mid + 1, hi) :
            first \in {solve_minimal_loop(grid, row_idx, board, target_rows, target_cols,
                                     op, row_possibilities, best_solution, lo, mid)}})

\* row_possibilities = [find_matching_subsets(row, target, op)
\*                      for row, target in zip(board, target_rows)]
RowPossibilities(board, target_rows, op) ==
    List([r \in 1..Len(board) |-> find_matching_subsets(board[r], target_rows[r], op)])

\* op = operator.mul if operation == "*" else operator.add
OpOf(operation) == IF operation = "*" THEN "mul" ELSE "add"

(***************************************************************************)
(* solve_puzzle, the /solve handler (main.py), with its closure            *)
(* solve_and_collect over best_solution and all_solutions.                 *)
(***************************************************************************)
RECURSIVE solve_and_collect(_, _, _, _, _, _, _, _)
RECURSIVE solve_and_collect_loop(_, _, _, _, _, _, _, _, _, _)
solve_and_collect(grid, row_idx, board, target_cols, op, row_possibilities, best_solution, all_solutions) ==
    IF row_idx = Len(board)
    THEN IF is_valid_columns(grid, board, target_cols, op)
         THEN [grid |-> grid,
               best_solution |-> IF Less(count_marked(grid), best_solution[1])
                                 THEN <<count_marked(grid), grid>>
                                 ELSE best_solution,
               all_solutions |-> Append(all_solutions, grid)]
         ELSE [grid |-> grid, best_solution |-> best_solution,
               all_solutions |-> all_solutions]
    ELSE Only({[after EXCEPT !.grid[row_idx + 1] = ZeroRow(Len(board[1]))] :
            after \in {solve_and_collect_loop(grid, row_idx, board, target_cols, op,
                                     row_possibilities, best_solution, all_solutions,
                                     1, Len(row_possibilities[row_idx + 1]))}})

solve_and_collect_loop(grid, row_idx, board, target_cols, op, row_possibilities, best_solution, all_solutions, lo, hi) ==
    IF lo > hi
    THEN [grid |-> grid, best_solution |-> best_solution, all_solutions |-> all_solutions]
    ELSE IF lo = hi
    THEN LET new_row == RowOf(row_possibilities[row_idx + 1][lo], Len(board[1]))
             placed == [grid EXCEPT ![row_idx + 1] = new_row]
         IN  IF is_partial_valid_columns(placed, row_idx, board, target_cols, op)
             THEN solve_and_collect(placed, row_idx + 1, board, target_cols, op,
                                    row_possibilities, best_solution, all_solutions)
             ELSE [grid |-> placed, best_solution |-> best_solution,
                   all_solutions |-> all_solutions]
    ELSE LET mid == (lo + hi) \div 2
         IN  Only({solve_and_collect_loop(first.grid, row_idx, board, target_cols, op,
                                             row_possibilities, first.best_solution,
                                             first.all_solutions, mid + 1, hi) :
            first \in {solve_and_collect_loop(grid, row_idx, board, target_cols, op,
                                         row_possibilities, best_solution,
                                         all_solutions, lo, mid)}})

SolvePuzzleResponse(end) ==
    IF end.all_solutions = <<>>
    THEN [solution |-> NONE, marked_count |-> 0, all_solutions |-> <<>>]
    ELSE [solution |-> end.best_solution[2], marked_count |-> end.best_solution[1],
          all_solutions |-> end.all_solutions]

solve_puzzle(board, target_rows, target_cols, operation) ==
    LET op == OpOf(operation)
        empty_grid == ZeroGrid(Len(board), Len(board[1]))
    IN  Only({Only({SolvePuzzleResponse(end) :
            end \in {solve_and_collect(empty_grid, 0, board, target_cols, op,
                                        row_possibilities, <<INF, NONE>>, <<>>)}}) :
            row_possibilities \in {RowPossibilities(board, target_rows, op)}})

(***************************************************************************)
(* run_game (archive/main.py) up to its menu loop: the candidate check,    *)
(* then solve_minimal from an empty grid and [sys.maxsize, None].          *)
(***************************************************************************)
RunGameOutcome(end) ==
    IF end.best_solution[2] = NONE
    THEN [outcome |-> "no_solution", best_solution |-> end.best_solution]
    ELSE [outcome |-> "found", best_solution |-> end.best_solution]

run_game(board, target_rows, target_cols, op) ==
    LET empty_grid == ZeroGrid(Len(board), Len(board[1]))
    IN  Only({IF \E r \in 1..Len(board) : Len(row_possibilities[r]) = 0
                 THEN [outcome |-> "no_row_candidates", best_solution |-> <<INF, NONE>>]
                 ELSE Only({RunGameOutcome(end) :
            end \in {solve_minimal(empty_grid, 0, board, target_rows, target_cols,
                                         op, row_possibilities, <<INF, NONE>>)}}) :
            row_possibilities \in {RowPossibilities(board, target_rows, op)}})

(***************************************************************************)
(* Manual input (manual_input.py).  Error messages are tags.               *)
(***************************************************************************)
ManualSize == 5
MinDigit == 1
MinMulDigit == 2
MaxDigit == 9

RECURSIVE FlattenSeq(_)
FlattenSeq(ss) == IF ss = <<>> THEN <<>> ELSE ss[1] \o FlattenSeq(Tail(ss))


ValidRangeOfAddition(operation) == MinDigit..MaxDigit

\* valid_range = range(1, 10) if operation == "+" else range(2, 10)
ValidRange(operation) == IF operation = "+" THEN MinDigit..MaxDigit
                         ELSE MinMulDigit..MaxDigit

\* The feasibility errors of one target list ("row" or "col").
FeasibilityErrors(kind, targets, max_possible, min_possible) ==
    FlattenSeq([i \in 1..Len(targets) |->
        IF targets[i] > max_possible THEN << <<kind, "too_high", i>> >>
        ELSE IF targets[i] < min_possible THEN << <<kind, "too_low", i>> >>
        ELSE <<>>])

PositiveErrors(kind, targets) ==
    FlattenSeq([i \in 1..Len(targets) |->
        IF targets[i] <= 0 THEN << <<kind, "not_positive", i>> >> ELSE <<>>])

CellErrors(board, operation) ==
    FlattenSeq([i \in 1..Len(board) |->
        FlattenSeq([j \in 1..Len(board[i]) |->
            IF board[i][j] \notin ValidRange(operation)
            THEN << <<"cell", i, j>> >> ELSE <<>>])])

validate_manual_input(board, target_rows, target_cols, operation) ==
    IF Len(board) # ManualSize
    THEN [valid |-> FALSE, errors |-> << <<"board_size">> >>]
    ELSE IF \E i \in 1..Len(board) : Len(board[i]) # ManualSize
    THEN [valid |-> FALSE,
          errors |-> << <<"row_length",
                          CHOOSE i \in 1..Len(board) :
                              /\ Len(board[i]) # ManualSize
                              /\ \A h \in 1..(i - 1) : Len(board[h]) = ManualSize>> >>]
    ELSE IF Len(target_rows) # ManualSize
    THEN [valid |-> FALSE, errors |-> << <<"target_rows_length">> >>]
    ELSE IF Len(target_cols) # ManualSize
    THEN [valid |-> FALSE, errors |-> << <<"target_cols_length">> >>]
    ELSE IF operation \notin {"*", "+"}
    THEN [valid |-> FALSE, errors |-> << <<"operation">> >>]
    ELSE LET max_possible == IF operation = "*"
                             THEN Reduce("mul", [k \in 1..ManualSize |-> MaxDigit])
                             ELSE MaxDigit * ManualSize
             min_possible == IF operation = "*" THEN MinMulDigit ELSE MinDigit
             errors == CellErrors(board, operation)
                       \o PositiveErrors("row", target_rows)
                       \o PositiveErrors("col", target_cols)
                       \o FeasibilityErrors("row", target_rows, max_possible, min_possible)
                       \o FeasibilityErrors("col", target_cols, max_possible, min_possible)
         IN  [valid |-> Len(errors) = 0, errors |-> errors]

RECURSIVE find_solutions_recursive(_, _, _, _, _, _, _)
RECURSIVE find_solutions_loop(_, _, _, _, _, _, _, _, _)
find_solutions_recursive(grid, row_idx, board, target_cols, op, row_possibilities, all_solutions) ==
    IF row_idx = ManualSize
    THEN [grid |-> grid,
          all_solutions |-> IF is_valid_columns(grid, board, target_cols, op)
                            THEN Append(all_solutions, grid)
                            ELSE all_solutions]
    ELSE Only({[after EXCEPT !.grid[row_idx + 1] = ZeroRow(ManualSize)] :
            after \in {find_solutions_loop(grid, row_idx, board, target_cols, op,
                                  row_possibilities, all_solutions,
                                  1, Len(row_possibilities[row_idx + 1]))}})

find_solutions_loop(grid, row_idx, board, target_cols, op, row_possibilities, all_solutions, lo, hi) ==
    IF lo > hi
    THEN [grid |-> grid, all_solutions |-> all_solutions]
    ELSE IF lo = hi
    THEN LET new_row == RowOf(row_possibilities[row_idx + 1][lo], ManualSize)
             placed == [grid EXCEPT ![row_idx + 1] = new_row]
         IN  IF is_partial_valid_columns(placed, row_idx, board, target_cols, op)
             THEN find_solutions_recursive(placed, row_idx + 1, board, target_cols,
                                           op, row_possibilities, all_solutions)
             ELSE [grid |-> placed, all_solutions |-> all_solutions]
    ELSE LET mid == (lo + hi) \div 2
         IN  Only({find_solutions_loop(first.grid, row_idx, board, target_cols, op,
                                          row_possibilities, first.all_solutions,
                                          mid + 1, hi) :
            first \in {find_solutions_loop(grid, row_idx, board, target_cols, op,
                                      row_possibilities, all_solutions, lo, mid)}})

find_all_solutions(board, target_rows, target_cols, operation) ==
    LET op == OpOf(operation)
        empty_grid == ZeroGrid(ManualSize, ManualSize)
    IN  Only({IF \E i \in 1..Len(row_possibilities) : Len(row_possibilities[i]) = 0
                 THEN <<>>
                 ELSE find_solutions_recursive(empty_grid, 0, board, target_cols, op,
                                               row_possibilities, <<>>).all_solutions :
            row_possibilities \in {RowPossibilities(board, target_rows, op)}})

\* The loop taking a later solution of equal count.
RECURSIVE PickOptimalLast(_, _, _, _)
PickOptimalLast(all_solutions, k, min_marked, optimal_solution) ==
    IF k > Len(all_solutions) THEN <<min_marked, optimal_solution>>
    ELSE IF LessOrEqual(count_marked(all_solutions[k]), min_marked)
    THEN PickOptimalLast(all_solutions, k + 1, count_marked(all_solutions[k]),
                         all_solutions[k])
    ELSE PickOptimalLast(all_solutions, k + 1, min_marked, optimal_solution)

\* The loop of solve_manual_puzzle that picks the optimal solution.
RECURSIVE PickOptimal(_, _, _, _)
PickOptimal(all_solutions, k, min_marked, optimal_solution) ==
    IF k > Len(all_solutions) THEN <<min_marked, optimal_solution>>
    ELSE IF Less(count_marked(all_solutions[k]), min_marked)
    THEN PickOptimal(all_solutions, k + 1, count_marked(all_solutions[k]), all_solutions[k])
    ELSE PickOptimal(all_solutions, k + 1, min_marked, optimal_solution)

ManualResponse(all_solutions) ==
    IF all_solutions = <<>>
    THEN [success |-> FALSE, optimal_solution |-> NONE, marked_count |-> 0,
          total_solutions |-> 0, all_solutions |-> <<>>,
          validation_errors |-> << <<"no_solution">> >>]
    ELSE LET picked == PickOptimal(all_solutions, 1, INF, NONE)
         IN  [success |-> TRUE, optimal_solution |-> picked[2],
              marked_count |-> picked[1],
              total_solutions |-> Len(all_solutions), all_solutions |-> all_solutions,
              validation_errors |-> <<>>]

solve_manual_puzzle(board, target_rows, target_cols, operation) ==
    Only({IF ~validation.valid
             THEN [success |-> FALSE, optimal_solution |-> NONE, marked_count |-> 0,
                   total_solutions |-> 0, all_solutions |-> <<>>,
                   validation_errors |-> validation.errors]
             ELSE Only({ManualResponse(all_solutions) :
            all_solutions \in {find_all_solutions(board, target_rows, target_cols, operation)}}) :
            validation \in {validate_manual_input(board, target_rows, target_cols, operation)}})

(***************************************************************************)
(* The board generator (core_logic.py).  Lists that the code only hands to *)
(* random.choice are sets here.  Weights are in hundredths, and the draw r *)
(* of random.uniform(0, total) ranges over 0..total hundredths.            *)
(***************************************************************************)
max_target == 99

min_confusion_threshold == 400

WeightsFirst == <<10, 40, 40, 5, 5>>

WeightsNoSingle == <<0, 44, 44, 6, 6>>

\* The for-loop of weighted_choice from position i (1-based) with upto
\* accumulated; the value returned is the source's i + 1.
RECURSIVE weighted_choice_from(_, _, _, _)
weighted_choice_from(weights, r, i, upto) ==
    IF i > Len(weights) THEN Len(weights)
    ELSE IF upto + weights[i] >= r THEN i
    ELSE weighted_choice_from(weights, r, i + 1, upto + weights[i])

weighted_choice(weights, r) == weighted_choice_from(weights, r, 1, 0)

valid_digits_swapped(operation) ==
    IF operation = "*" THEN MinDigit..MaxDigit ELSE MinMulDigit..MaxDigit

valid_digits(operation) ==
    IF operation = "*" THEN MinMulDigit..MaxDigit ELSE MinDigit..MaxDigit

\* The outcomes explored of one random.choice / random.choices that draws a
\* solution value from digits.
Restrict(digits) ==
    IF digits \cap {LowDigit, HighDigit} = {} THEN digits
    ELSE digits \cap {LowDigit, HighDigit}

\* The outcomes explored of one random.choice(smart_digits) of the first pass.
RestrictRemaining(smart_digits) ==
    IF LowDigit \in smart_digits THEN {LowDigit} ELSE smart_digits

\* get_confusing_numbers, operation == '*'.
ConfusingMul(target, digits) ==
    LET factors == {n \in digits : target > 0 /\ target % n = 0}
        near == {n \in digits : \E factor \in factors :
                    /\ 7 * target <= 10 * factor * n
                    /\ 10 * factor * n <= 13 * target
                    /\ factor * n # target}
        quotients == {target \div factor : factor \in factors} \cap digits
        common == {2, 3, 4, 6} \cap digits
        multiples == {cf * mult : cf \in common, mult \in {2, 3}} \cap digits
        small == IF Cardinality(factors) >= 3 THEN {n \in digits : n <= 6} ELSE {}
    IN  factors \cup quotients \cup near \cup common \cup multiples \cup small

\* contribution_count[n] of get_confusing_numbers, operation == '+'.
ContributionCount(n, middle_range, target) ==
    Cardinality({other \in middle_range : n # other /\ 2 <= n + other /\ n + other <= target})
    + Cardinality({pair \in middle_range \X middle_range :
                      /\ n # pair[1] /\ n # pair[2] /\ pair[1] # pair[2]
                      /\ 3 <= n + pair[1] + pair[2]
                      /\ n + pair[1] + pair[2] <= target})

\* versatile_numbers[:5]: the sort is stable and descending by count.
Versatile(middle_range, target) ==
    {n \in middle_range :
        Cardinality({m \in middle_range :
            \/ ContributionCount(m, middle_range, target)
                   > ContributionCount(n, middle_range, target)
            \/ /\ ContributionCount(m, middle_range, target)
                      = ContributionCount(n, middle_range, target)
               /\ m < n}) < 5}

\* get_confusing_numbers, operation == '+'.
ConfusingAdd(target, digits) ==
    LET ones == IF target <= 6 THEN {1} ELSE {}
        middle_range == {n \in digits : 2 <= n /\ n <= 7}
        fractions == {target \div 2, target \div 3, target \div 4}
        around == {val \in digits : val > 1 /\ \E frac \in fractions :
                      \E offset \in -2..2 : val = frac + offset}
        pairs == {n \in digits : /\ 2 <= n /\ n < target
                                 /\ (target - n) \in digits
                                 /\ target - n # n /\ target - n > 1}
        complements == {target - n : n \in pairs}
        false_path_range == IF target >= 10
                            THEN {n \in digits : /\ target \div 4 <= n
                                                 /\ n <= target \div 2 /\ n > 1}
                            ELSE {}
    IN  ones \cup Versatile(middle_range, target) \cup around \cup pairs
             \cup complements \cup false_path_range

\* The list returned, as the set of its members.  The padding loop runs only
\* when fewer than 4 (and fewer than all) digits were collected; it then adds
\* random remaining digits, for '+' other than 1 while there is one.
RECURSIVE PaddedSets(_, _, _)
PaddedSets(confusing, operation, digits) ==
    IF Cardinality(confusing) >= 4 \/ Cardinality(confusing) >= Cardinality(digits)
    THEN {confusing}
    ELSE LET remaining == digits \ confusing
             non_ones == remaining \ {1}
             choices == IF operation = "+" /\ non_ones # {} THEN non_ones ELSE remaining
         IN  UNION {PaddedSets(confusing \cup {n}, operation, digits) : n \in choices}

get_confusing_numbers(target, operation, digits) ==
    LET confusing == IF operation = "*" THEN ConfusingMul(target, digits)
                     ELSE ConfusingAdd(target, digits)
    IN  {IF padded = {} THEN digits ELSE padded :
             padded \in PaddedSets(confusing, operation, digits)}

\* generate_smart_numbers: the sets of digits it may return.
generate_smart_numbers(target, operation, digits, difficulty) ==
    IF difficulty = "easy"
    THEN IF operation = "+" /\ target < 9 THEN {{n \in digits : n <= target}}
         ELSE IF operation = "*" /\ target < 20 THEN {{n \in digits : n <= 5}}
         ELSE {digits}
    ELSE IF difficulty = "medium"
    THEN IF operation = "+" /\ target < 15 THEN {{n \in digits : n <= target + 2}}
         ELSE IF operation = "*" /\ target < 50 THEN {{n \in digits : n <= 7}}
         ELSE {digits}
    ELSE get_confusing_numbers(target, operation, digits)

\* The digits one draw of a row's solution values may give: once
\* ones_used >= max_ones an addition draw is taken from 2..9.
DrawDomain(operation, digits, ones_used, max_ones) ==
    IF operation = "+" /\ ones_used >= max_ones
    THEN Restrict(2..MaxDigit)
    ELSE Restrict(digits)

OnesUsed(values, i) == Cardinality({k \in 1..(i - 1) : values[k] = 1})

\* The value lists the draw loop can build, one draw per solution cell.
LimitedOnesDraws(operation, digits, count, max_ones) ==
    {values \in [1..count -> MinDigit..MaxDigit] :
        \A i \in 1..count :
            values[i] \in DrawDomain(operation, digits, OnesUsed(values, i), max_ones)}

\* Easy and medium: max_ones = 2 if difficulty == "easy" else 1.
PlainDraws(operation, digits, count, difficulty) ==
    LimitedOnesDraws(operation, digits, count, IF difficulty = "easy" THEN 2 ELSE 1)

preferred_targets == {12, 15, 18, 20, 21, 24, 28, 30, 35, 36, 42, 45, 48, 60, 63, 72}

preferred_range == 12..27

\* The test that ends the attempt loop of hard mode.
Accepted(operation, target) ==
    IF operation = "*"
    THEN \/ target \in preferred_targets
         \/ /\ 10 <= target /\ target <= 80
            /\ Cardinality({n \in 2..9 : target % n = 0}) >= 3
    ELSE target \in preferred_range

\* The value lists of the fallback taken after max_attempts rejected draws.
FallbackDraws(operation, count) ==
    IF operation = "*"
    THEN [1..count -> Restrict(2..7)]
    ELSE {values \in [1..count -> MinDigit..MaxDigit] :
             \A i \in 1..count :
                 values[i] \in (IF i = 1 THEN Restrict(2..6) ELSE Restrict(1..7))}

\* Hard: the attempt loop ends with an accepted draw, or with the fallback
\* when every one of its max_attempts draws was rejected.
HardDraws(operation, digits, count) ==
    LET draws == IF operation = "*" THEN [1..count -> Restrict(digits)]
                 ELSE LimitedOnesDraws(operation, digits, count, 1)
        accepted == {values \in draws : Accepted(operation, Reduce(OpOf(operation), values))}
    IN  accepted \cup (IF draws = accepted THEN {} ELSE FallbackDraws(operation, count))

\* The solution values of a row when the loop "while target > max_target"
\* has ended: the first values if within the limit, else any redraw that is.
SolutionValues(operation, digits, count, difficulty) ==
    LET first == IF difficulty = "hard" THEN HardDraws(operation, digits, count)
                 ELSE PlainDraws(operation, digits, count, difficulty)
        within(values) == Reduce(OpOf(operation), values) <= max_target
    IN  {values \in first : within(values)}
        \cup (IF \A values \in first : within(values) THEN {}
              ELSE {values \in [1..count -> Restrict(digits)] : within(values)})

\* list.remove(val): the list without the first occurrence of val.
RECURSIVE RemoveFirst(_, _)
RemoveFirst(values, val) ==
    IF values = <<>> THEN <<>>
    ELSE IF Head(values) = val THEN Tail(values)
    ELSE <<Head(values)>> \o RemoveFirst(Tail(values), val)

\* Marking every cell whose value is a solution value.
MarkAllMatches(row, i, count, solution_values, marked) ==
    List([k \in i..Len(row) |->
             IF \E j \in 1..Len(solution_values) : solution_values[j] = row[k]
             THEN 1 ELSE 0])

\* The loop that rebuilds solution_row from the shuffled row, from position
\* i on, marked being len(row_solution_vals).
RECURSIVE MarkFirstMatches(_, _, _, _, _)
MarkFirstMatches(row, i, count, solution_values, marked) ==
    IF i > Len(row) THEN <<>>
    ELSE IF marked < count /\ \E k \in 1..Len(solution_values) : solution_values[k] = row[i]
    THEN <<1>> \o MarkFirstMatches(row, i + 1, count,
                                   RemoveFirst(solution_values, row[i]), marked + 1)
    ELSE <<0>> \o MarkFirstMatches(row, i + 1, count, solution_values, marked)

\* target = reduce(op, col_values) if col_values else 0, for column col.
ColumnTarget(board, solution_grid, col, op) ==
    LET col_values == MarkedColumnValues(solution_grid, board, col, Len(board))
    IN  IF col_values = <<>> THEN 0 ELSE Reduce(op, col_values)

find_common_factors(row_target, col_target, digits) ==
    IF row_target <= 0 \/ col_target <= 0 THEN {}
    ELSE {n \in digits : row_target % n = 0 /\ col_target % n = 0}

\* The two tests of a cell as exclusive branches.
CellConfusionExclusive(board, row_targets, col_targets, solution_grid, digits, r, c) ==
    IF solution_grid[r][c] # 0 THEN 0
    ELSE IF board[r][c] \in find_common_factors(row_targets[r], col_targets[c], digits)
    THEN 50
    ELSE IF row_targets[r] % board[r][c] = 0 \/ col_targets[c] % board[r][c] = 0
    THEN 25 ELSE 0

\* The score evaluate_board_confusion adds for one cell.
CellConfusion(board, row_targets, col_targets, solution_grid, digits, r, c) ==
    IF solution_grid[r][c] # 0 THEN 0
    ELSE (IF board[r][c] \in find_common_factors(row_targets[r], col_targets[c], digits)
          THEN 50 ELSE 0)
         + (IF row_targets[r] % board[r][c] = 0 \/ col_targets[c] % board[r][c] = 0
            THEN 25 ELSE 0)

\* The bonus evaluate_board_confusion adds for one target.
TargetBonus(target, digits) ==
    IF target <= 0 THEN 0
    ELSE LET factors == {n \in digits : target % n = 0}
         IN  IF Cardinality(factors) >= 4 THEN 30
             ELSE IF Cardinality(factors) >= 3 THEN 15
             ELSE 0

evaluate_board_confusion(board, row_targets, col_targets, solution_grid, digits) ==
    LET size == Len(board)
    IN  SumSeq(List([k \in 1..(size * size) |->
                CellConfusion(board, row_targets, col_targets, solution_grid, digits,
                              ((k - 1) \div size) + 1, ((k - 1) % size) + 1)]))
        + SumSeq(List([k \in 1..Len(row_targets \o col_targets) |->
                         TargetBonus((row_targets \o col_targets)[k], digits)]))

\* board[row][i] for the marked cells i of a row, other than column col.
MarkedRowValues(board, solution_grid, row, col) ==
    SelectSeq(List([i \in 1..Len(board[row]) |->
                      IF solution_grid[row][i] = 1 /\ i # col THEN board[row][i] ELSE 0]),
              LAMBDA v : v # 0)

\* board[i][col] for the marked cells i of a column, other than row row.
MarkedColValues(board, solution_grid, row, col) ==
    SelectSeq(List([i \in 1..Len(board) |->
                      IF i # row /\ solution_grid[i][col] = 1 THEN board[i][col] ELSE 0]),
              LAMBDA v : v # 0)

\* op = operator.mul if target > 15 else operator.add
GuessedOp(target) == IF target > 15 THEN "mul" ELSE "add"

\* min(factor_combo_bonus, 80)
FactorComboBonus(digit, row_factors, col_factors) ==
    Only({IF bonus < 80 THEN bonus ELSE 80 :
            bonus \in {20 * Cardinality({other \in row_factors :
                  other # digit /\ digit * other <= MaxDigit * 2})
         + 20 * Cardinality({other \in col_factors :
                  other # digit /\ digit * other <= MaxDigit * 2})}})

\* score += 120 when the marked values of the line (row or column) and the
\* digit give the line's target under the operator guessed from the target.
FalsePathBonus(digit, target, marked_values) ==
    IF /\ marked_values # <<>>
       /\ Reduce(GuessedOp(target), Append(marked_values, digit)) = target
    THEN 120 ELSE 0

\* The score get_ultra_confusing_number gives a digit, marked_values and
\* marked_col_values being the marked cells of the row and of the column.
UltraScore(digit, row_target, col_target, row_factors, col_factors, marked_values, marked_col_values, existing_board_numbers) ==
    FalsePathBonus(digit, row_target, marked_values)
    + FalsePathBonus(digit, col_target, marked_col_values)
    + (IF digit \in row_factors /\ digit \in col_factors THEN 100
       ELSE IF digit \in row_factors THEN 60
       ELSE IF digit \in col_factors THEN 60
       ELSE 0)
    + FactorComboBonus(digit, row_factors, col_factors)
    - (IF digit \in existing_board_numbers THEN 10 ELSE 0)
    + (IF digit <= 4 THEN 30 ELSE 0)

\* sorted(valid_digits) as a list.
RECURSIVE Ascending(_)
Ascending(digits) ==
    IF digits = {} THEN <<>>
    ELSE Only({<<least>> \o Ascending(digits \ {least}) :
            least \in {CHOOSE n \in digits : \A m \in digits : n <= m}})

\* The list without its i-th entry.
WithoutEntry(list, i) == SubSeq(list, 1, i - 1) \o SubSeq(list, i + 1, Len(list))

\* The digits of the first n entries of candidates once sorted by score,
\* descending; the sort is stable, so of equal scores the earlier entry leads.
RECURSIVE TopCandidates(_, _)
TopCandidates(candidates, n) ==
    IF n = 0 \/ candidates = <<>> THEN <<>>
    ELSE Only({<<candidates[first][1]>>
                      \o TopCandidates(WithoutEntry(candidates, first), n - 1) :
            first \in {CHOOSE i \in 1..Len(candidates) :
                  \A j \in 1..Len(candidates) :
                      \/ candidates[j][2] < candidates[i][2]
                      \/ candidates[j][2] = candidates[i][2] /\ i <= j}})

\* confusion_candidates: the common factors at 150, then every digit whose
\* score is positive.
ConfusionCandidates(row_target, col_target, digits, existing_board_numbers, at) ==
    LET common_factors == Ascending(at.row_factors \cap at.col_factors)
        sorted_digits == Ascending(digits)
    IN  List([k \in 1..Len(common_factors) |-> <<common_factors[k], 150>>])
        \o SelectSeq(List([k \in 1..Len(sorted_digits) |->
                             <<sorted_digits[k],
                               UltraScore(sorted_digits[k], row_target, col_target,
                                          at.row_factors, at.col_factors, at.marked_values,
                                          at.marked_col_values, existing_board_numbers)>>]),
                     LAMBDA c : c[2] > 0)

\* get_ultra_confusing_number: top_candidates, the list random.choice picks
\* from (row and col 1-based).  Without candidates the choice is among the
\* common factors, else the digits up to 4, else all digits.
get_ultra_confusing_number(row, col, row_target, col_targets, digits, existing_board_numbers, board, solution_grid) ==
    Only({Only({IF confusion_candidates # <<>>
                      THEN TopCandidates(confusion_candidates, 3)
                      ELSE IF at.row_factors \cap at.col_factors # {}
                      THEN Ascending(at.row_factors \cap at.col_factors)
                      ELSE IF {n \in digits : n <= 4} # {}
                      THEN Ascending({n \in digits : n <= 4})
                      ELSE Ascending(digits) :
            confusion_candidates \in {ConfusionCandidates(row_target, col_targets[col], digits,
                                      existing_board_numbers, at)}}) :
            at \in {[row_factors |-> {n \in digits : row_target % n = 0},
          col_factors |-> {n \in digits : col_targets[col] % n = 0},
          marked_values |-> MarkedRowValues(board, solution_grid, row, col),
          marked_col_values |-> MarkedColValues(board, solution_grid, row, col)]}})

\* The positions of top_candidates the explored random.choice picks from.
ExploredPicks(top_candidates) ==
    {i \in 1..Len(top_candidates) : i <= MaxPicks}

EveryCell(solution_grid, row, col) == TRUE

\* if solution_grid[row_idx][col_idx] == 0 (a non-marked cell)
NonMarked(solution_grid, row, col) == solution_grid[row][col] = 0

\* The boards the second pass can leave from cell k on (cells in row-major
\* order from 0, cell k being board[k // size][k % size]): every non-marked
\* cell is replaced by its smart_number, computed on the board as it then is.
RECURSIVE SecondPass(_, _, _, _, _, _)
SecondPass(board, k, row_solutions, col_targets, digits, solution_grid) ==
    LET size == Len(board)
        row == (k \div size) + 1
        col == (k % size) + 1
    IN  IF k = size * size THEN {board}
        ELSE IF ~NonMarked(solution_grid, row, col)
        THEN SecondPass(board, k + 1, row_solutions, col_targets, digits, solution_grid)
        ELSE UNION {
               UNION {SecondPass([board EXCEPT ![row][col] = top_candidates[i]], k + 1,
                                 row_solutions, col_targets, digits, solution_grid) :
                         i \in ExploredPicks(top_candidates)} :
               top_candidates \in {get_ultra_confusing_number(
                                       row, col, row_solutions[row], col_targets, digits,
                                       {board[row][c] : c \in (1..size) \ {col}},
                                       board, solution_grid)}}

(***************************************************************************)
(* Specification SpecSubsets: find_matching_subsets as a pure function.    *)
(* Init draws (values, target, op); FmCall applies the function.           *)
(***************************************************************************)
RECURSIVE SeqsUpTo(_, _)
SeqsUpTo(S, n) ==
    IF n = 0 THEN {<<>>}
    ELSE LET shorter == SeqsUpTo(S, n - 1)
         IN  shorter \cup {Append(s, x) : s \in {t \in shorter : Len(t) = n - 1}, x \in S}

Ops == {"add", "mul"}

SvIdle == [pc |-> "idle"]

FmIdle == [pc |-> "idle"]

GenIdle == [pc |-> "idle"]

NgIdle == [pc |-> "idle"]

CvIdle == [pc |-> "idle"]

EvIdle == [pc |-> "idle"]

GmIdle == [pc |-> "idle"]

CallsIdle == [pc |-> "idle"]

FmInit ==
    /\ fm \in [values : SeqsUpTo(0..MaxVal, MaxLen), target : 0..MaxTarget,
               op : Ops, pc : {"ready"}, matching : {<<>>}]
    /\ sv = SvIdle
    /\ gen = GenIdle
    /\ ng = NgIdle
    /\ cv = CvIdle
    /\ ev = EvIdle
    /\ gm = GmIdle
    /\ calls = CallsIdle

FmCall ==
    /\ fm.pc = "ready"
    /\ fm' = [fm EXCEPT !.pc = "done",
                        !.matching = find_matching_subsets(fm.values, fm.target, fm.op)]
    /\ UNCHANGED <<cv, sv, gen, ng, ev, gm, calls>>

FmNext == FmCall

SpecSubsets == FmInit /\ [][FmNext]_vars

(***************************************************************************)
(* Specification SpecSolve: the solver entry points on one input.          *)
(* Init draws the input: a small board of positive cells with any targets, *)
(* a small puzzle embedded in a 5x5 board (the only shape manual input     *)
(* accepts), or the predefined puzzle of archive/main.py.  The entry points then run in a   *)
(* fixed order, each on the same input, each from its own fresh grid and   *)
(* accumulator as its caller builds them.                                  *)
(***************************************************************************)
PredefinedBoard == << <<9, 3, 3, 9, 2>>,
                      <<3, 3, 8, 4, 3>>,
                      <<3, 9, 8, 3, 3>>,
                      <<5, 3, 2, 4, 2>>,
                      <<3, 8, 4, 4, 6>> >>

PredefinedInput == [board |-> PredefinedBoard,
                    target_rows |-> <<18, 72, 27, 24, 96>>,
                    target_cols |-> <<81, 72, 32, 12, 36>>,
                    operation |-> "*"]

SmallInputs == [board : [1..NRows -> [1..NCols -> 1..MaxVal]],
                target_rows : [1..NRows -> 0..MaxTarget],
                target_cols : [1..NCols -> 0..MaxTarget],
                operation : {"*", "+"}]

\* The small puzzle in the top-left corner of a 5x5 board.  Every other row
\* and column holds MinMulDigit on the diagonal, which is its target, and
\* MaxDigit elsewhere.
Pad5(inp) ==
    [board |-> [r \in 1..ManualSize |-> [c \in 1..ManualSize |->
                    IF r <= NRows /\ c <= NCols THEN inp.board[r][c]
                    ELSE IF r = c THEN MinMulDigit ELSE MaxDigit]],
     target_rows |-> [r \in 1..ManualSize |->
                    IF r <= NRows THEN inp.target_rows[r] ELSE MinMulDigit],
     target_cols |-> [c \in 1..ManualSize |->
                    IF c <= NCols THEN inp.target_cols[c] ELSE MinMulDigit],
     operation |-> inp.operation]

\* The small puzzles that are embedded: those whose targets are all positive.
PaddedInputs ==
    {Pad5(inp) : inp \in {i \in SmallInputs :
                              /\ \A r \in 1..NRows : i.target_rows[r] >= 1
                              /\ \A c \in 1..NCols : i.target_cols[c] >= 1}}

SolveInputs == SmallInputs \cup PaddedInputs \cup {PredefinedInput}

SvInit ==
    /\ \E inp \in SolveInputs :
          sv = [pc |-> "ready", board |-> inp.board, target_rows |-> inp.target_rows,
                target_cols |-> inp.target_cols, operation |-> inp.operation,
                grid |-> NONE, best_solution |-> <<INF, NONE>>, game |-> NONE,
                solve |-> NONE, manual |-> NONE]
    /\ fm = FmIdle
    /\ gen = GenIdle
    /\ ng = NgIdle
    /\ cv = CvIdle
    /\ ev = EvIdle
    /\ gm = GmIdle
    /\ calls = CallsIdle

\* The call as new_game makes it (main.py): candidates per row, an empty
\* grid, best_solution = [inf, None], then solve_minimal from row 0.
CallSolveMinimal ==
    /\ sv.pc = "ready"
    /\ LET op == OpOf(sv.operation)
           empty_grid == ZeroGrid(Len(sv.board), Len(sv.board[1]))
           end == Only({solve_minimal(empty_grid, 0, sv.board, sv.target_rows,
                                         sv.target_cols, op, row_possibilities,
                                         <<INF, NONE>>) :
            row_possibilities \in {RowPossibilities(sv.board, sv.target_rows, op)}})
       IN  \E result \in {end} :
               sv' = [sv EXCEPT !.pc = "min", !.grid = result.grid,
                                !.best_solution = result.best_solution]
    /\ UNCHANGED <<fm, cv, gen, ng, ev, gm, calls>>

CallRunGame ==
    /\ sv.pc = "min"
    /\ sv' = [sv EXCEPT !.pc = "game",
                        !.game = run_game(sv.board, sv.target_rows, sv.target_cols,
                                          OpOf(sv.operation))]
    /\ UNCHANGED <<fm, cv, gen, ng, ev, gm, calls>>

CallSolvePuzzle ==
    /\ sv.pc = "game"
    /\ sv' = [sv EXCEPT !.pc = "solve",
                        !.solve = solve_puzzle(sv.board, sv.target_rows, sv.target_cols,
                                               sv.operation)]
    /\ UNCHANGED <<fm, cv, gen, ng, ev, gm, calls>>

CallSolveManual ==
    /\ sv.pc = "solve"
    /\ sv' = [sv EXCEPT !.pc = "done",
                        !.manual = solve_manual_puzzle(sv.board, sv.target_rows,
                                                       sv.target_cols, sv.operation)]
    /\ UNCHANGED <<fm, cv, gen, ng, ev, gm, calls>>

SvNext == CallSolveMinimal \/ CallRunGame \/ CallSolvePuzzle \/ CallSolveManual

SpecSolve == SvInit /\ [][SvNext]_vars

(***************************************************************************)
(* Specifications SpecGen and SpecGenHard: one call of                     *)
(* generate_board_from_solution(operation, GenSize, max_target,            *)
(* difficulty), a step per random stage.  gen.singles counts the rows of   *)
(* the current call that drew count 1.  A recursive call, whose result the *)
(* code returns as its own, starts the call afresh.                        *)
(***************************************************************************)
GenStart(operation, difficulty) ==
    [pc |-> "row", operation |-> operation, difficulty |-> difficulty,
     has_single_cell_row |-> FALSE, singles |-> 0,
     count |-> 0, solution_values |-> <<>>, target |-> 0,
     board |-> <<>>, solution_grid |-> <<>>, row_solutions |-> <<>>,
     col_targets |-> <<>>]

GenInit ==
    /\ gen \in {GenStart(operation, difficulty) :
                   operation \in {"*", "+"}, difficulty \in {"easy", "medium"}}
    /\ fm = FmIdle
    /\ sv = SvIdle
    /\ ng = NgIdle
    /\ cv = CvIdle
    /\ ev = EvIdle
    /\ gm = GmIdle
    /\ calls = CallsIdle

GenHardInit ==
    /\ gen \in {GenStart(operation, "hard") : operation \in {"*", "+"}}
    /\ fm = FmIdle
    /\ sv = SvIdle
    /\ ng = NgIdle
    /\ cv = CvIdle
    /\ ev = EvIdle
    /\ gm = GmIdle
    /\ calls = CallsIdle

\* count = weighted_choice(weights); random.sample(range(size), count) then
\* raises ValueError when count > size.
GenWeightedChoice ==
    /\ gen.pc = "row"
    /\ Len(gen.board) < GenSize
    /\ LET weights == IF gen.has_single_cell_row THEN WeightsNoSingle ELSE WeightsFirst
       IN  \E r \in 0..SumSeq(weights) :
             \E count \in {weighted_choice(weights, r)} :
               gen' = [gen EXCEPT
                         !.pc = IF count > GenSize THEN "raised" ELSE "values",
                         !.count = count,
                         !.has_single_cell_row = gen.has_single_cell_row \/ count = 1,
                         !.singles = IF count = 1 THEN gen.singles + 1 ELSE gen.singles]
    /\ UNCHANGED <<fm, cv, sv, ng, ev, gm, calls>>

\* The solution values of the row and its target.
GenSolutionValues ==
    /\ gen.pc = "values"
    /\ \E values \in SolutionValues(gen.operation, valid_digits(gen.operation),
                                    gen.count, gen.difficulty) :
          gen' = [gen EXCEPT !.pc = "decoys",
                             !.solution_values = List(values),
                             !.target = Reduce(OpOf(gen.operation), values)]
    /\ UNCHANGED <<fm, cv, sv, ng, ev, gm, calls>>

\* The remaining values, the shuffle, and the rebuilt solution_row.
GenRow ==
    /\ gen.pc = "decoys"
    /\ \E smart_digits \in generate_smart_numbers(gen.target, gen.operation,
                                                  valid_digits(gen.operation),
                                                  gen.difficulty) :
       \E remaining_values \in [1..(GenSize - gen.count) -> RestrictRemaining(smart_digits)] :
       \E shuffle \in Permutations(1..GenSize) :
       \E row \in {List([i \in 1..GenSize |->
                           (gen.solution_values \o remaining_values)[shuffle[i]]])} :
          gen' = [gen EXCEPT
                    !.pc = "row",
                    !.board = Append(gen.board, row),
                    !.solution_grid =
                        Append(gen.solution_grid,
                               MarkFirstMatches(row, 1, gen.count, gen.solution_values, 0)),
                    !.row_solutions = Append(gen.row_solutions, gen.target),
                    !.count = 0, !.solution_values = <<>>, !.target = 0]
    /\ UNCHANGED <<fm, cv, sv, ng, ev, gm, calls>>

ColumnTargetNeverTooLarge(target) == FALSE

\* if target > max_target (of a column target)
ColumnTargetTooLarge(target) == target > max_target

\* Column targets; a target above max_target starts the call afresh.
GenColumnTargets ==
    /\ gen.pc = "row"
    /\ Len(gen.board) = GenSize
    /\ \E col_targets \in {List([j \in 1..GenSize |->
                                   ColumnTarget(gen.board, gen.solution_grid, j,
                                                OpOf(gen.operation))])} :
          gen' = IF \E j \in 1..GenSize : ColumnTargetTooLarge(col_targets[j])
                 THEN GenStart(gen.operation, gen.difficulty)
                 ELSE [gen EXCEPT !.pc = IF gen.difficulty = "hard" THEN "second"
                                         ELSE "returned",
                                  !.col_targets = col_targets]
    /\ UNCHANGED <<fm, cv, sv, ng, ev, gm, calls>>

NotConfusingEnoughInverted(confusion_score) == confusion_score > min_confusion_threshold

\* if confusion_score < min_confusion_threshold
NotConfusingEnough(confusion_score) == confusion_score < min_confusion_threshold

\* Hard mode: the second pass over the non-marked cells, then the gate on the
\* confusion score, which returns the board or starts the call afresh.
GenSecondPass ==
    /\ gen.pc = "second"
    /\ \E board \in SecondPass(gen.board, 0, gen.row_solutions, gen.col_targets,
                               valid_digits(gen.operation), gen.solution_grid) :
          gen' = IF NotConfusingEnough(
                        evaluate_board_confusion(board, gen.row_solutions,
                                                 gen.col_targets, gen.solution_grid,
                                                 valid_digits(gen.operation)))
                 THEN GenStart(gen.operation, gen.difficulty)
                 ELSE [gen EXCEPT !.pc = "returned", !.board = board]
    /\ UNCHANGED <<fm, cv, sv, ng, ev, gm, calls>>

GenNext == GenWeightedChoice \/ GenSolutionValues \/ GenRow \/ GenColumnTargets

GenHardNext == GenNext \/ GenSecondPass

SpecGen == GenInit /\ [][GenNext]_vars

SpecGenHard == GenHardInit /\ [][GenHardNext]_vars

\* Every difficulty.
GenAllInit ==
    /\ gen \in {GenStart(operation, difficulty) :
                   operation \in {"*", "+"}, difficulty \in {"easy", "medium", "hard"}}
    /\ fm = FmIdle
    /\ sv = SvIdle
    /\ ng = NgIdle
    /\ cv = CvIdle
    /\ ev = EvIdle
    /\ gm = GmIdle
    /\ calls = CallsIdle

SpecGenAll == GenAllInit /\ [][GenHardNext]_vars

(***************************************************************************)
(* Properties.  The definitions below state what the documentation says of *)
(* the program, independently of how the code computes it.                 *)
(***************************************************************************)
\* The values at an index set (0-based indices) combined under op.
RECURSIVE CombineAt(_, _, _)
CombineAt(values, indices, op) ==
    LET least == CHOOSE i \in indices : \A j \in indices : i <= j
    IN  IF indices = {least} THEN values[least + 1]
        ELSE Apply(op, values[least + 1], CombineAt(values, indices \ {least}, op))

\* Every non-empty index subset whose values combine to the target.
MatchingIndexSets(values, target, op) ==
    {indices \in SUBSET {i - 1 : i \in 1..Len(values)} :
        indices # {} /\ CombineAt(values, indices, op) = target}

ReturnedSubsets == {fm.matching[k] : k \in 1..Len(fm.matching)}

\* C2: find_matching_subsets returns only index subsets that combine to the
\* target (soundness) and every non-empty index subset that does
\* (completeness): the returned subsets are exactly the matching ones.
C2_SoundAndComplete ==
    fm.pc = "done" =>
        ReturnedSubsets = MatchingIndexSets(fm.values, fm.target, fm.op)

\* A call that returned several subsets, the whole sequence among them, and
\* left some subset out.
C2_Witness ==
    /\ fm.pc = "done"
    /\ Len(fm.values) = MaxLen
    /\ {i - 1 : i \in 1..Len(fm.values)} \in ReturnedSubsets
    /\ Len(fm.matching) >= 2
    /\ Len(fm.matching) < 7

\* C9: the returned subsets are non-empty and pairwise distinct; a length-1
\* sequence whose sole value is the target yields exactly the subset {0};
\* when nothing matches, the empty sequence included, the result is empty.
C9_NonEmptyDistinctBoundary ==
    fm.pc = "done" =>
        /\ \A k \in 1..Len(fm.matching) : fm.matching[k] # {}
        /\ \A j, k \in 1..Len(fm.matching) : j # k => fm.matching[j] # fm.matching[k]
        /\ (Len(fm.values) = 1 /\ fm.values[1] = fm.target) => fm.matching = << {0} >>
        /\ MatchingIndexSets(fm.values, fm.target, fm.op) = {} => fm.matching = <<>>
        /\ fm.values = <<>> => fm.matching = <<>>

C9_WitnessSingle ==
    /\ fm.pc = "done"
    /\ Len(fm.values) = 1
    /\ fm.values[1] = fm.target
    /\ fm.matching = << {0} >>

C9_WitnessEmptySequence == fm.pc = "done" /\ fm.values = <<>> /\ fm.matching = <<>>

C9_WitnessEqualValues ==
    /\ fm.pc = "done"
    /\ Len(fm.values) = 2
    /\ fm.values[1] = fm.values[2]
    /\ Len(fm.matching) = 2

(***************************************************************************)
(* Valid masks, stated on index sets: a mask is one non-empty set of       *)
(* column indices (0-based) per row; it is valid when every row and every  *)
(* column has a marked cell and its marked cells combine to its target.    *)
(***************************************************************************)
\* The masks of rows 1..r whose every row meets its row target.
RECURSIVE RowMasks(_, _, _, _)
RowMasks(board, target_rows, op, r) ==
    IF r = 0 THEN {<<>>}
    ELSE {Append(mask, indices) :
             mask \in RowMasks(board, target_rows, op, r - 1),
             indices \in MatchingIndexSets(board[r], target_rows[r], op)}

ColumnOf(board, col) == [r \in 1..Len(board) |-> board[r][col]]

MarkedRowsOf(mask, col) == {r - 1 : r \in {q \in 1..Len(mask) : (col - 1) \in mask[q]}}

ColumnMeetsTarget(board, mask, col, target, op) ==
    /\ MarkedRowsOf(mask, col) # {}
    /\ CombineAt(ColumnOf(board, col), MarkedRowsOf(mask, col), op) = target

ValidMasks(board, target_rows, target_cols, op) ==
    {mask \in RowMasks(board, target_rows, op, Len(board)) :
        \A col \in 1..Len(board[1]) :
            ColumnMeetsTarget(board, mask, col, target_cols[col], op)}

\* The mask a 0/1 grid stands for.
MarksOf(grid) ==
    List([r \in 1..Len(grid) |-> {c - 1 : c \in {d \in 1..Len(grid[r]) : grid[r][d] = 1}}])

MarkCount(mask) == SumSeq([r \in 1..Len(mask) |-> Cardinality(mask[r])])

SvValidMasks == ValidMasks(sv.board, sv.target_rows, sv.target_cols, OpOf(sv.operation))

\* C3: on a board of positive integers with at least one valid mask,
\* solve_minimal ends with best_solution holding a valid mask whose mark
\* count is the minimum over all valid masks, and best_solution[0] is that
\* count.
C3_MinimalSolution ==
    sv.pc = "min" =>
        \A valid \in {SvValidMasks} :
            valid # {} =>
                /\ sv.best_solution[2] # NONE
                /\ MarksOf(sv.best_solution[2]) \in valid
                /\ sv.best_solution[1] = MarkCount(MarksOf(sv.best_solution[2]))
                /\ \A mask \in valid : sv.best_solution[1] <= MarkCount(mask)

\* solve_minimal has run on a puzzle that has valid masks of different counts.
C3_Witness ==
    /\ sv.pc = "min"
    /\ sv.best_solution[2] # NONE
    /\ \E mask \in SvValidMasks : MarkCount(mask) > sv.best_solution[1]

InList(grid, list) == \E k \in 1..Len(list) : list[k] = grid

AllValid(list, valid) == \A k \in 1..Len(list) : MarksOf(list[k]) \in valid

\* C4: the list of all solutions of the solve-all traversals (/solve and
\* manual input) contains the mask chosen as minimal for the same input,
\* and every mask of the list passes the full column check and meets every
\* row target, that is, is a valid mask.
C4_AllSolutionsHoldMinimal ==
    sv.pc = "done" =>
        \A valid \in {SvValidMasks} :
            /\ AllValid(sv.solve.all_solutions, valid)
            /\ AllValid(sv.manual.all_solutions, valid)
            /\ \A k \in 1..Len(sv.solve.all_solutions) :
                   is_valid_columns(sv.solve.all_solutions[k], sv.board, sv.target_cols,
                                    OpOf(sv.operation))
            /\ sv.solve.solution # NONE => InList(sv.solve.solution, sv.solve.all_solutions)
            /\ sv.best_solution[2] # NONE =>
                   InList(sv.best_solution[2], sv.solve.all_solutions)
            /\ sv.manual.success =>
                   /\ InList(sv.manual.optimal_solution, sv.manual.all_solutions)
                   /\ InList(sv.best_solution[2], sv.manual.all_solutions)

\* Both traversals listed several solutions.
C4_Witness ==
    /\ sv.pc = "done"
    /\ sv.manual.success
    /\ Len(sv.manual.all_solutions) >= 2
    /\ Len(sv.solve.all_solutions) >= 2
    /\ sv.solve.solution # NONE

SomeRowWithoutCandidates ==
    \E r \in 1..Len(sv.board) :
        MatchingIndexSets(sv.board[r], sv.target_rows[r], OpOf(sv.operation)) = {}

NoSolutionReported ==
    /\ sv.best_solution = <<INF, NONE>>
    /\ sv.game.outcome \in {"no_row_candidates", "no_solution"}
    /\ sv.game.best_solution[2] = NONE
    /\ sv.solve.solution = NONE
    /\ sv.solve.all_solutions = <<>>

\* C5: when no valid mask exists the solver reports it as data:
\* solve_minimal leaves best_solution at its initial value (sentinel, None)
\* and /solve returns solution None with an empty all_solutions; in
\* particular a row with an empty candidate set gives this outcome whatever
\* the candidates of the other rows.
C5_NoSolutionIsData ==
    sv.pc = "solve" =>
        /\ SvValidMasks = {} => NoSolutionReported
        /\ SomeRowWithoutCandidates => NoSolutionReported

\* No solution, one row being without candidates and another having some.
C5_Witness ==
    /\ sv.pc = "solve"
    /\ SomeRowWithoutCandidates
    /\ \E r \in 1..Len(sv.board) :
           MatchingIndexSets(sv.board[r], sv.target_rows[r], OpOf(sv.operation)) # {}
    /\ NoSolutionReported

\* No solution although every row has candidates.
C5_WitnessColumns ==
    /\ sv.pc = "solve"
    /\ ~SomeRowWithoutCandidates
    /\ SvValidMasks = {}
    /\ NoSolutionReported

\* C6: on the predefined board with its targets and PRODUCT, solve_minimal
\* (as run_game calls it) finds a solution, the returned mask meets all five
\* row targets and all five column targets exactly, and a second run from
\* fresh state reports the same mark count, the minimum over valid masks.
C6_PredefinedBoardSolved ==
    (sv.pc \in {"game", "solve", "done"} /\ sv.board = PredefinedBoard) =>
        \A valid \in {SvValidMasks} :
            /\ sv.game.outcome = "found"
            /\ MarksOf(sv.game.best_solution[2]) \in valid
            /\ sv.game.best_solution[1] = MarkCount(MarksOf(sv.game.best_solution[2]))
            /\ sv.game.best_solution[1] = sv.best_solution[1]
            /\ \A mask \in valid : sv.game.best_solution[1] <= MarkCount(mask)

C6_Witness ==
    /\ sv.pc = "game"
    /\ sv.board = PredefinedBoard
    /\ sv.target_rows = PredefinedInput.target_rows
    /\ sv.target_cols = PredefinedInput.target_cols
    /\ sv.game.outcome = "found"

\* best_solution as new_game computes it for a generated puzzle.
SolveGenerated(board, target_rows, target_cols, operation) ==
    Only({solve_minimal(ZeroGrid(Len(board), Len(board[1])), 0, board, target_rows,
                           target_cols, OpOf(operation), row_possibilities,
                           <<INF, NONE>>).best_solution :
            row_possibilities \in {RowPossibilities(board, target_rows, OpOf(operation))}})

\* The rows of a mask that hold exactly one marked cell.
SingleCellRows(solution_grid) ==
    {r \in 1..Len(solution_grid) : SumSeq(solution_grid[r]) = 1}

\* C1: generate_board_from_solution never returns a puzzle for which
\* solve_minimal finds no solution: every returned puzzle has a valid mask.
C1_ReturnedPuzzleSolvable ==
    gen.pc = "returned" =>
        /\ SolveGenerated(gen.board, gen.row_solutions, gen.col_targets,
                          gen.operation)[2] # NONE
        /\ ValidMasks(gen.board, gen.row_solutions, gen.col_targets,
                      OpOf(gen.operation)) # {}

\* C8: every board returned in difficulty hard scores at least 400 on
\* evaluate_board_confusion, evaluated on the board as returned, after the
\* second pass replaced the non-marked cells.
C8_HardBoardsScoreAtLeastThreshold ==
    (gen.pc = "returned" /\ gen.difficulty = "hard") =>
        evaluate_board_confusion(gen.board, gen.row_solutions, gen.col_targets,
                                 gen.solution_grid, valid_digits(gen.operation))
            >= min_confusion_threshold

\* A hard board was returned, with non-marked cells the second pass rewrote.
C8_Witness ==
    /\ gen.pc = "returned"
    /\ gen.difficulty = "hard"
    /\ \E r, c \in 1..GenSize : gen.solution_grid[r][c] = 0
    /\ evaluate_board_confusion(gen.board, gen.row_solutions, gen.col_targets,
                                gen.solution_grid, valid_digits(gen.operation))
           >= min_confusion_threshold

\* C10: in every returned board at most one row was built with count 1, and
\* at most one row of the returned mask holds exactly one marked cell.
C10_AtMostOneSingleCellRow ==
    gen.pc = "returned" =>
        /\ gen.singles <= 1
        /\ Cardinality(SingleCellRows(gen.solution_grid)) <= 1

(***************************************************************************)
(* Specification SpecNewGame: new_game (main.py).  The handler calls the   *)
(* generator (here with size GenSize, its steps being those of SpecGen),   *)
(* solves the returned puzzle with solve_minimal, and returns the puzzle   *)
(* when a solution was found; ng.attempt is the iteration of               *)
(* "for _ in range(20)" that is running.  An exception of the generator    *)
(* (gen.pc = "raised") leaves the handler without a response.              *)
(***************************************************************************)
MaxAttempts == 20

AcceptAlways(best_solution) == TRUE

\* if best_solution[1] is not None
Accept(best_solution) == best_solution[2] # NONE

\* The requests explored: GameRequest(operation, difficulty).
NewGameRequests == {[operation |-> "*", difficulty |-> "easy"]}

NgInit ==
    /\ \E request \in NewGameRequests :
          /\ ng = [pc |-> "generating", attempt |-> 1, operation |-> request.operation,
                   difficulty |-> request.difficulty, response |-> NONE]
          /\ gen = GenStart(request.operation, request.difficulty)
    /\ fm = FmIdle
    /\ sv = SvIdle
    /\ cv = CvIdle
    /\ ev = EvIdle
    /\ gm = GmIdle
    /\ calls = CallsIdle

\* The puzzle of the current attempt has a solution: it is the response.
NgReturnPuzzle ==
    /\ ng.pc = "generating"
    /\ gen.pc = "returned"
    /\ \E best_solution \in {SolveGenerated(gen.board, gen.row_solutions,
                                            gen.col_targets, ng.operation)} :
          /\ Accept(best_solution)
          /\ ng' = [ng EXCEPT !.pc = "returned",
                              !.response = [board |-> gen.board,
                                            target_rows |-> gen.row_solutions,
                                            target_cols |-> gen.col_targets,
                                            operation |-> ng.operation,
                                            solution |-> gen.solution_grid,
                                            minimal_solution |-> best_solution[2],
                                            marked_count |-> best_solution[1],
                                            difficulty |-> ng.difficulty]]
    /\ UNCHANGED <<fm, cv, sv, gen, ev, gm, calls>>

\* It has none: the next iteration calls the generator again.
NgNextAttempt ==
    /\ ng.pc = "generating"
    /\ gen.pc = "returned"
    /\ ng.attempt < MaxAttempts
    /\ ~Accept(SolveGenerated(gen.board, gen.row_solutions, gen.col_targets, ng.operation))
    /\ ng' = [ng EXCEPT !.attempt = ng.attempt + 1]
    /\ gen' = GenStart(ng.operation, ng.difficulty)
    /\ UNCHANGED <<fm, cv, sv, ev, gm, calls>>

\* It has none and the loop is over: the error response.
NgFail ==
    /\ ng.pc = "generating"
    /\ gen.pc = "returned"
    /\ ng.attempt = MaxAttempts
    /\ ~Accept(SolveGenerated(gen.board, gen.row_solutions, gen.col_targets, ng.operation))
    /\ ng' = [ng EXCEPT !.pc = "failed", !.response = [error |-> "failed_to_generate"]]
    /\ UNCHANGED <<fm, cv, sv, gen, ev, gm, calls>>

NgNext == GenNext \/ NgReturnPuzzle \/ NgNextAttempt \/ NgFail

SpecNewGame == NgInit /\ [][NgNext]_vars

\* The mask is valid: every row and every column has a marked cell and its
\* marked cells combine to its target.
IsValidMask(board, mask, target_rows, target_cols, op) ==
    /\ Len(mask) = Len(board)
    /\ \A r \in 1..Len(board) :
           /\ mask[r] # {}
           /\ CombineAt(board[r], mask[r], op) = target_rows[r]
    /\ \A col \in 1..Len(board[1]) :
           ColumnMeetsTarget(board, mask, col, target_cols[col], op)

\* C11: new_game calls the generator at most 20 times; it returns a puzzle
\* only for an attempt on which solve_minimal found a solution, the returned
\* minimal_solution being a valid mask of the returned board and targets;
\* and it returns the error only after 20 attempts without one.
C11_NewGameBoundedRetry ==
    /\ ng.pc # "idle" => ng.attempt \in 1..MaxAttempts
    /\ ng.pc = "returned" =>
           /\ ng.response.board = gen.board
           /\ ng.response.target_rows = gen.row_solutions
           /\ ng.response.target_cols = gen.col_targets
           /\ ng.response.minimal_solution # NONE
           /\ IsValidMask(ng.response.board, MarksOf(ng.response.minimal_solution),
                          ng.response.target_rows, ng.response.target_cols,
                          OpOf(ng.response.operation))
           /\ ng.response.marked_count = MarkCount(MarksOf(ng.response.minimal_solution))
    /\ ng.pc = "failed" =>
           /\ ng.attempt = MaxAttempts
           /\ ng.response = [error |-> "failed_to_generate"]
           /\ ValidMasks(gen.board, gen.row_solutions, gen.col_targets,
                         OpOf(ng.operation)) = {}

\* The error response, after the twentieth attempt gave an unsolvable puzzle.
C11_WitnessFailed == ng.pc = "failed" /\ ng.attempt = MaxAttempts

\* A puzzle returned on a later attempt, the earlier ones having failed.
C11_WitnessRetried == ng.pc = "returned" /\ ng.attempt > 1

(***************************************************************************)
(* Specification SpecManual: solve_manual_puzzle on one request.  Init     *)
(* draws the request: a well-formed 5x5 puzzle, as it is or with one       *)
(* defect of shape, operation, cell value or target.                       *)
(***************************************************************************)
\* Well-formed requests: a 2x2 puzzle of cells MinMulDigit, with targets the
\* value of one cell or of two, embedded in a 5x5 board.
ManualBases ==
    {Pad5(inp) : inp \in {i \in SmallInputs :
                             /\ \A r \in 1..NRows, c \in 1..NCols : i.board[r][c] = MinMulDigit
                             /\ \A r \in 1..NRows : i.target_rows[r] \in {MinMulDigit, 2 * MinMulDigit}
                             /\ \A c \in 1..NCols : i.target_cols[c] \in {MinMulDigit, 2 * MinMulDigit}}}

ManualDefects ==
    {"none", "no_board", "four_rows", "six_rows", "short_row", "empty_row",
     "four_row_targets", "no_row_targets", "four_col_targets", "six_col_targets",
     "bad_operation", "cell_zero", "cell_one", "cell_ten", "row_target_zero",
     "col_target_negative", "row_target_too_high", "col_target_one"}

\* The largest target validate_manual_input accepts.
MaxPossible(operation) ==
    IF operation = "*" THEN Reduce("mul", [k \in 1..ManualSize |-> MaxDigit])
    ELSE MaxDigit * ManualSize

WithDefect(inp, defect) ==
    CASE defect = "no_board" -> [inp EXCEPT !.board = <<>>]
      [] defect = "four_rows" -> [inp EXCEPT !.board = SubSeq(List(@), 1, ManualSize - 1)]
      [] defect = "six_rows" -> [inp EXCEPT !.board = Append(List(@), @[1])]
      [] defect = "short_row" ->
             [inp EXCEPT !.board = [List(@) EXCEPT ![2] = SubSeq(List(@), 1, ManualSize - 1)]]
      [] defect = "empty_row" -> [inp EXCEPT !.board = [List(@) EXCEPT ![ManualSize] = <<>>]]
      [] defect = "four_row_targets" ->
             [inp EXCEPT !.target_rows = SubSeq(List(@), 1, ManualSize - 1)]
      [] defect = "no_row_targets" -> [inp EXCEPT !.target_rows = <<>>]
      [] defect = "four_col_targets" ->
             [inp EXCEPT !.target_cols = SubSeq(List(@), 1, ManualSize - 1)]
      [] defect = "six_col_targets" -> [inp EXCEPT !.target_cols = Append(List(@), @[1])]
      [] defect = "bad_operation" -> [inp EXCEPT !.operation = "-"]
      [] defect = "cell_zero" -> [inp EXCEPT !.board[1][2] = 0]
      [] defect = "cell_one" -> [inp EXCEPT !.board[1][2] = 1]
      [] defect = "cell_ten" -> [inp EXCEPT !.board[1][2] = MaxDigit + 1]
      [] defect = "row_target_zero" -> [inp EXCEPT !.target_rows[1] = 0]
      [] defect = "col_target_negative" -> [inp EXCEPT !.target_cols[ManualSize] = -1]
      [] defect = "row_target_too_high" ->
             [inp EXCEPT !.target_rows[1] = MaxPossible(inp.operation) + 1]
      [] defect = "col_target_one" -> [inp EXCEPT !.target_cols[1] = 1]
      [] OTHER -> inp

ManualInit ==
    /\ \E inp \in ManualBases, defect \in ManualDefects :
          \E request \in {WithDefect(inp, defect)} :
              sv = [pc |-> "manual_ready", board |-> request.board,
                    target_rows |-> request.target_rows,
                    target_cols |-> request.target_cols,
                    operation |-> request.operation, manual |-> NONE]
    /\ fm = FmIdle
    /\ gen = GenIdle
    /\ ng = NgIdle
    /\ cv = CvIdle
    /\ ev = EvIdle
    /\ gm = GmIdle
    /\ calls = CallsIdle

ManualCall ==
    /\ sv.pc = "manual_ready"
    /\ sv' = [sv EXCEPT !.pc = "manual_done",
                        !.manual = solve_manual_puzzle(sv.board, sv.target_rows,
                                                       sv.target_cols, sv.operation)]
    /\ UNCHANGED <<fm, cv, gen, ng, ev, gm, calls>>

ManualNext == ManualCall

SpecManual == ManualInit /\ [][ManualNext]_vars

\* The request has one of the defects the documentation lists.
ListedValidationError ==
    \/ Len(sv.board) # 5
    \/ \E r \in 1..Len(sv.board) : Len(sv.board[r]) # 5
    \/ Len(sv.target_rows) # 5
    \/ Len(sv.target_cols) # 5
    \/ sv.operation \notin {"*", "+"}
    \/ \E r \in 1..Len(sv.board) : \E c \in 1..Len(sv.board[r]) :
           \/ sv.board[r][c] < (IF sv.operation = "+" THEN 1 ELSE 2)
           \/ sv.board[r][c] > 9
    \/ \E r \in 1..Len(sv.target_rows) : sv.target_rows[r] <= 0
    \/ \E c \in 1..Len(sv.target_cols) : sv.target_cols[c] <= 0

RejectedResponse ==
    /\ sv.manual.success = FALSE
    /\ sv.manual.optimal_solution = NONE
    /\ sv.manual.marked_count = 0
    /\ sv.manual.total_solutions = 0
    /\ sv.manual.all_solutions = <<>>
    /\ sv.manual.validation_errors # <<>>
    /\ \A k \in 1..Len(sv.manual.validation_errors) :
           sv.manual.validation_errors[k] # <<"no_solution">>

\* C12: for any input with a validation error (board not 5x5, a target
\* vector not of length 5, an operation other than '*' and '+', a cell
\* outside the operation's digit range, a non-positive target)
\* solve_manual_puzzle returns success False, optimal_solution None,
\* marked_count 0, total_solutions 0, an empty all_solutions and the
\* non-empty list of validation errors, without having run the solver.
C12_InvalidInputRejected ==
    sv.pc = "manual_done" =>
        /\ ListedValidationError => RejectedResponse
        /\ ~validate_manual_input(sv.board, sv.target_rows, sv.target_cols,
                                  sv.operation).valid
               => /\ RejectedResponse
                  /\ sv.manual.validation_errors
                         = validate_manual_input(sv.board, sv.target_rows,
                                                 sv.target_cols, sv.operation).errors

\* A 5x5 request under '*' with a cell 1, which would have a solution, rejected.
C12_Witness ==
    /\ sv.pc = "manual_done"
    /\ Len(sv.board) = 5
    /\ sv.operation = "*"
    /\ sv.board[1][2] = 1
    /\ ValidMasks(sv.board, sv.target_rows, sv.target_cols, "mul") # {}
    /\ RejectedResponse

\* A well-formed request answered with its solutions.
C12_WitnessAccepted ==
    /\ sv.pc = "manual_done"
    /\ ~ListedValidationError
    /\ sv.manual.success

\* Some member of the full product of the row candidates is cut off by the
\* partial column check after its first row.
SomeSubtreePruned ==
    \E mask \in RowMasks(sv.board, sv.target_rows, OpOf(sv.operation), Len(sv.board)) :
        \E col \in 1..Len(sv.board[1]) :
            /\ (col - 1) \in mask[1]
            /\ sv.board[1][col] > sv.target_cols[col]

\* C13: on a board whose cells are all >= 1, pruning by the partial column
\* check loses nothing: the masks the pruned traversal finds valid are
\* exactly the valid masks of the full product of the per-row candidates.
C13_PruningIsSound ==
    (sv.pc \in {"solve", "done"}
        /\ \A r \in 1..Len(sv.board) : \A c \in 1..Len(sv.board[r]) : sv.board[r][c] >= 1) =>
        {MarksOf(sv.solve.all_solutions[k]) : k \in 1..Len(sv.solve.all_solutions)}
            = SvValidMasks

\* Valid masks were found although part of the product was pruned.
C13_Witness ==
    /\ sv.pc = "solve"
    /\ Len(sv.solve.all_solutions) >= 2
    /\ SomeSubtreePruned

\* mask1 is tried before mask2 by find_matching_subsets: fewer indices
\* first, and of equally many the lexicographically smaller.
CandidateBefore(indices1, indices2) ==
    \/ Cardinality(indices1) < Cardinality(indices2)
    \/ /\ Cardinality(indices1) = Cardinality(indices2)
       /\ indices1 # indices2
       /\ \E i \in indices1 \ indices2 : \A j \in indices2 \ indices1 : i < j

\* mask1 is reached before mask2 in depth-first order, rows top to bottom.
MaskBefore(mask1, mask2) ==
    \E r \in 1..Len(mask1) :
        /\ \A q \in 1..(r - 1) : mask1[q] = mask2[q]
        /\ CandidateBefore(mask1[r], mask2[r])

\* C16: the retained best mask is replaced only by a valid mask of strictly
\* lower count: of the valid masks of minimal count the one reached first in
\* depth-first order is returned.
C16_FirstFoundWinsTies ==
    (sv.pc = "min" /\ sv.best_solution[2] # NONE) =>
        \A valid \in {SvValidMasks} :
            \A mask \in valid :
                /\ MarkCount(mask) >= sv.best_solution[1]
                /\ (MarkCount(mask) = sv.best_solution[1]
                        /\ mask # MarksOf(sv.best_solution[2]))
                       => MaskBefore(MarksOf(sv.best_solution[2]), mask)

\* Several valid masks share the minimal count.
C16_Witness ==
    /\ sv.pc = "min"
    /\ sv.best_solution[2] # NONE
    /\ \E mask \in SvValidMasks :
           /\ MarkCount(mask) = sv.best_solution[1]
           /\ mask # MarksOf(sv.best_solution[2])

(***************************************************************************)
(* Specification SpecColumns: the two column checks as pure functions.     *)
(* Init draws a 0/1 grid, a board (cells from 0, so that a product can be  *)
(* 0), column targets, the operator and the row index; CvCall applies      *)
(* is_valid_columns and is_partial_valid_columns.                          *)
(***************************************************************************)
CvInit ==
    /\ cv \in [grid : [1..NRows -> [1..NCols -> {0, 1}]],
               board : [1..NRows -> [1..NCols -> 0..MaxVal]],
               target_cols : [1..NCols -> 0..MaxTarget],
               op : Ops, row_idx : 0..(NRows - 1), pc : {"ready"},
               full : {FALSE}, partial : {FALSE}]
    /\ fm = FmIdle
    /\ sv = SvIdle
    /\ gen = GenIdle
    /\ ng = NgIdle
    /\ ev = EvIdle
    /\ gm = GmIdle
    /\ calls = CallsIdle

CvCall ==
    /\ cv.pc = "ready"
    /\ cv' = [cv EXCEPT !.pc = "done",
                        !.full = is_valid_columns(cv.grid, cv.board, cv.target_cols, cv.op),
                        !.partial = is_partial_valid_columns(cv.grid, cv.row_idx, cv.board,
                                                             cv.target_cols, cv.op)]
    /\ UNCHANGED <<fm, sv, gen, ng, ev, gm, calls>>

CvNext == CvCall

SpecColumns == CvInit /\ [][CvNext]_vars

\* The rows (0-based) among the first nrows whose cell in column col is marked.
MarkedRowsUpTo(grid, col, nrows) == {r - 1 : r \in {q \in 1..nrows : grid[q][col] = 1}}

\* C14: is_valid_columns is true exactly when every column has a marked
\* cell and its marked cells combine to exactly its target; a column
\* without a marked cell makes it false whatever its target, 0 included.
C14_FullCheckExact ==
    cv.pc = "done" =>
        /\ cv.full = (\A col \in 1..NCols :
                         /\ MarkedRowsUpTo(cv.grid, col, NRows) # {}
                         /\ CombineAt(ColumnOf(cv.board, col),
                                      MarkedRowsUpTo(cv.grid, col, NRows), cv.op)
                                = cv.target_cols[col])
        /\ (\E col \in 1..NCols : MarkedRowsUpTo(cv.grid, col, NRows) = {}) => ~cv.full

\* Rejected for an unmarked column alone: its target is 0 and every other
\* column meets its target.
C14_Witness ==
    /\ cv.pc = "done"
    /\ ~cv.full
    /\ \E col \in 1..NCols :
           /\ MarkedRowsUpTo(cv.grid, col, NRows) = {}
           /\ cv.target_cols[col] = 0
           /\ \A other \in (1..NCols) \ {col} :
                  /\ MarkedRowsUpTo(cv.grid, other, NRows) # {}
                  /\ CombineAt(ColumnOf(cv.board, other),
                               MarkedRowsUpTo(cv.grid, other, NRows), cv.op)
                         = cv.target_cols[other]

\* The column has marked cells among rows 0..row_idx whose combined value is
\* over the target, or is 0 under PRODUCT while the target is not.
ColumnRejects(grid, board, col, target, op, row_idx) ==
    /\ MarkedRowsUpTo(grid, col, row_idx + 1) # {}
    /\ \E combined \in {CombineAt(ColumnOf(board, col),
                                  MarkedRowsUpTo(grid, col, row_idx + 1), op)} :
           \/ combined > target
           \/ op = "mul" /\ combined = 0 /\ target # 0

\* C15: is_partial_valid_columns(grid, i, ...) is false exactly when some
\* column with a marked cell among rows 0..i has a combined value above its
\* target or, under PRODUCT, a combined value 0 with a nonzero target;
\* columns unmarked in rows 0..i never reject and marks below row i are
\* ignored.
C15_PartialCheckExact ==
    cv.pc = "done" =>
        cv.partial = ~(\E col \in 1..NCols :
                          ColumnRejects(cv.grid, cv.board, col, cv.target_cols[col],
                                        cv.op, cv.row_idx))

\* Accepted although a mark below row i alone would exceed its column's target.
C15_Witness ==
    /\ cv.pc = "done"
    /\ cv.partial
    /\ cv.row_idx < NRows - 1
    /\ \E col \in 1..NCols :
           /\ cv.grid[NRows][col] = 1
           /\ cv.board[NRows][col] > cv.target_cols[col]

\* Rejected for a product 0 against a nonzero target.
C15_WitnessZeroProduct ==
    /\ cv.pc = "done"
    /\ ~cv.partial
    /\ cv.op = "mul"
    /\ \A col \in 1..NCols :
           MarkedRowsUpTo(cv.grid, col, cv.row_idx + 1) # {} =>
               CombineAt(ColumnOf(cv.board, col),
                         MarkedRowsUpTo(cv.grid, col, cv.row_idx + 1), cv.op)
                   <= cv.target_cols[col]

\* C17: no row target and no column target of a returned board exceeds
\* max_target, and a column target above max_target discards the whole
\* board: generation starts afresh, no row being kept.
C17_TargetsWithinLimit ==
    /\ [](gen.pc = "returned" =>
              /\ \A r \in 1..GenSize : gen.row_solutions[r] <= 99
              /\ \A c \in 1..GenSize : gen.col_targets[c] <= 99)
    /\ [][(/\ gen.pc = "row"
           /\ Len(gen.board) = GenSize
           /\ \E c \in 1..GenSize :
                  /\ MarkedRowsUpTo(gen.solution_grid, c, GenSize) # {}
                  /\ CombineAt(ColumnOf(gen.board, c),
                               MarkedRowsUpTo(gen.solution_grid, c, GenSize),
                               OpOf(gen.operation)) > 99)
              => /\ gen'.pc = "row"
                 /\ gen'.board = <<>>
                 /\ gen'.solution_grid = <<>>
                 /\ gen'.row_solutions = <<>>
                 /\ gen'.has_single_cell_row = FALSE]_vars

\* A board is complete, all its row targets within the limit, and a column
\* target is above it.
C17_Witness ==
    /\ gen.pc = "row"
    /\ Len(gen.board) = GenSize
    /\ \A r \in 1..GenSize : gen.row_solutions[r] <= 99
    /\ \E c \in 1..GenSize :
           /\ MarkedRowsUpTo(gen.solution_grid, c, GenSize) # {}
           /\ CombineAt(ColumnOf(gen.board, c),
                        MarkedRowsUpTo(gen.solution_grid, c, GenSize),
                        OpOf(gen.operation)) > 99

\* The number of cells of the row that are marked (or not) and hold value v.
CellsHolding(row, marks, mark, v) ==
    Cardinality({i \in 1..Len(row) : marks[i] = mark /\ row[i] = v})

Occurrences(values, v) == Cardinality({k \in 1..Len(values) : values[k] = v})

\* C18: for every row built, the first-match reconstruction marks exactly
\* count cells, the values at the marked cells are the drawn solution values
\* as a multiset, and so the marked cells combine to the row target, also
\* when a decoy equals a solution value.
C18_ReconstructionKeepsSolution ==
    [][gen.pc = "decoys" =>
          \E row \in {gen'.board[Len(gen'.board)]} :
          \E marks \in {gen'.solution_grid[Len(gen'.solution_grid)]} :
              /\ Len(gen'.board) = Len(gen.board) + 1
              /\ Cardinality({i \in 1..GenSize : marks[i] = 1}) = gen.count
              /\ \A i \in 1..GenSize : marks[i] \in {0, 1}
              /\ \A v \in 1..9 :
                     CellsHolding(row, marks, 1, v) = Occurrences(gen.solution_values, v)
              /\ CombineAt(row, {i - 1 : i \in {j \in 1..GenSize : marks[j] = 1}},
                           OpOf(gen.operation)) = gen.target
              /\ gen'.row_solutions[Len(gen'.row_solutions)] = gen.target]_vars

\* A row was built in which a decoy equals a solution value.
C18_Witness ==
    /\ gen.pc = "row"
    /\ Len(gen.board) >= 1
    /\ \E row \in {gen.board[Len(gen.board)]} :
       \E marks \in {gen.solution_grid[Len(gen.solution_grid)]} :
           \E i, j \in 1..GenSize :
               marks[i] = 1 /\ marks[j] = 0 /\ row[i] = row[j]

\* The digits of the operation: 2..9 under PRODUCT, 1..9 under SUM.
DigitDomain(operation) == IF operation = "*" THEN 2..9 ELSE 1..9

\* C19: every cell of every returned board, marked or decoy, in every
\* difficulty and after the second pass of hard mode, is a digit of the
\* operation's domain, and the narrowed decoy domain is never empty.
C19_CellsInDigitDomain ==
    /\ gen.pc = "returned" =>
           \A r, c \in 1..GenSize : gen.board[r][c] \in DigitDomain(gen.operation)
    /\ (gen.pc = "row" /\ gen.board # <<>>) =>
           \A r \in 1..Len(gen.board) : \A c \in 1..GenSize :
               gen.board[r][c] \in DigitDomain(gen.operation)
    /\ gen.pc = "decoys" =>
           \A smart_digits \in generate_smart_numbers(gen.target, gen.operation,
                                                      valid_digits(gen.operation),
                                                      gen.difficulty) :
               /\ smart_digits # {}
               /\ smart_digits \subseteq DigitDomain(gen.operation)

\* A hard board was returned whose second pass left a decoy other than the
\* first-pass decoy LowDigit.
C19_Witness ==
    /\ gen.pc = "returned"
    /\ gen.difficulty = "hard"
    /\ \E r, c \in 1..GenSize :
           gen.solution_grid[r][c] = 0 /\ gen.board[r][c] # LowDigit

\* ---------------------------------------------------------------------------
\* evaluate_board_confusion as its caller uses it: on a board of the
\* operation's digits, a solution grid with a marked cell in every row, and
\* the targets the marked cells give.
\* ---------------------------------------------------------------------------

\* The MaxVal + 1 smallest digits of the operation.
EvCells(operation) ==
    {d \in valid_digits(operation) :
        Cardinality({e \in valid_digits(operation) : e < d}) <= MaxVal}

EvGrids ==
    {g \in [1..NRows -> [1..NRows -> {0, 1}]] :
        \A r \in 1..NRows : \E c \in 1..NRows : g[r][c] = 1}

EvInput(operation, board, solution_grid) ==
    [pc |-> "ready", operation |-> operation, board |-> board,
     solution_grid |-> solution_grid,
     row_targets |-> List([r \in 1..NRows |->
                             Reduce(OpOf(operation),
                                    SelectSeq(List([c \in 1..NRows |->
                                                      IF solution_grid[r][c] = 1
                                                      THEN board[r][c] ELSE 0]),
                                              LAMBDA v : v # 0))]),
     col_targets |-> List([c \in 1..NRows |->
                             ColumnTarget(board, solution_grid, c, OpOf(operation))]),
     confusion_score |-> 0]

EvInit ==
    /\ ev \in UNION {{EvInput(operation, board, solution_grid) :
                         board \in [1..NRows -> [1..NRows -> EvCells(operation)]],
                         solution_grid \in EvGrids} :
                     operation \in {"*", "+"}}
    /\ fm = FmIdle
    /\ cv = CvIdle
    /\ sv = SvIdle
    /\ gen = GenIdle
    /\ ng = NgIdle
    /\ gm = GmIdle
    /\ calls = CallsIdle

EvCall ==
    /\ ev.pc = "ready"
    /\ ev' = [ev EXCEPT !.pc = "done",
                        !.confusion_score =
                            evaluate_board_confusion(ev.board, ev.row_targets, ev.col_targets,
                                                     ev.solution_grid,
                                                     valid_digits(ev.operation))]
    /\ UNCHANGED <<fm, cv, sv, gen, ng, gm, calls>>

EvNext == EvCall

SpecConfusion == EvInit /\ [][EvNext]_vars

\* The cells of the evaluated board, row by row.
EvPositions == {<<r, c>> : r \in 1..NRows, c \in 1..NRows}

RECURSIVE SumOver(_, _)
\* The sum of score[x] over the elements x of S.
SumOver(S, score) ==
    IF S = {} THEN 0
    ELSE LET x == CHOOSE y \in S : TRUE IN score[x] + SumOver(S \ {x}, score)

\* +30 for a positive target with at least four divisors among the digits
\* of the operation, +15 for one with at least three.
DivisorBonus(target, operation) ==
    LET divisors == {n \in DigitDomain(operation) : target % n = 0}
    IN  IF target <= 0 THEN 0
        ELSE IF Cardinality(divisors) >= 4 THEN 30
        ELSE IF Cardinality(divisors) >= 3 THEN 15
        ELSE 0

EvBonuses ==
    SumOver(1..NRows, [r \in 1..NRows |-> DivisorBonus(ev.row_targets[r], ev.operation)])
    + SumOver(1..NRows, [c \in 1..NRows |-> DivisorBonus(ev.col_targets[c], ev.operation)])

\* The per-cell part of the computed score.
EvPerCellPart == ev.confusion_score - EvBonuses

\* The score of a cell as stated: 50 for a common divisor, and not more, 25
\* for a divisor of exactly one target, nothing for a marked cell.
StatedCellScore(r, c) ==
    LET value == ev.board[r][c]
        divides_row == ev.row_targets[r] % value = 0
        divides_col == ev.col_targets[c] % value = 0
    IN  IF ev.solution_grid[r][c] # 0 THEN 0
        ELSE IF divides_row /\ divides_col THEN 50
        ELSE IF divides_row \/ divides_col THEN 25
        ELSE 0

\* The score of a cell as computed: 50 for a common divisor of two positive
\* targets and, besides, 25 for a divisor of at least one target.
CumulativeCellScore(r, c) ==
    LET value == ev.board[r][c]
        divides_row == ev.row_targets[r] % value = 0
        divides_col == ev.col_targets[c] % value = 0
    IN  IF ev.solution_grid[r][c] # 0 THEN 0
        ELSE (IF /\ ev.row_targets[r] > 0
                 /\ ev.col_targets[c] > 0
                 /\ divides_row
                 /\ divides_col
              THEN 50 ELSE 0)
             + (IF divides_row \/ divides_col THEN 25 ELSE 0)

\* C20 as stated, on boards whose targets are all positive: the per-cell
\* part of the score is the sum over the cells of +50 for a common divisor
\* of the cell's row and column target and +25 for a divisor of exactly one
\* of them, a common divisor contributing 50 and not more.
C20_CommonDivisorScoresFifty ==
    (/\ ev.pc = "done"
     /\ \A c \in 1..NRows : ev.col_targets[c] > 0)
        => EvPerCellPart =
               SumOver(EvPositions, [p \in EvPositions |-> StatedCellScore(p[1], p[2])])

\* C20 amended: evaluate_board_confusion adds, for each non-marked cell, +50
\* if the cell value is a common divisor of its row target and its column
\* target, both positive, and besides +25 if it divides at least one of the
\* two targets, so that a common divisor contributes 75; a column target of
\* zero counts as divided by the value and has no common divisor; marked
\* cells contribute nothing to the per-cell part of the score.
C20_CommonDivisorScoresBoth ==
    ev.pc = "done" =>
        /\ EvPerCellPart =
               SumOver(EvPositions, [p \in EvPositions |-> CumulativeCellScore(p[1], p[2])])
        /\ (\A p \in EvPositions : ev.solution_grid[p[1]][p[2]] = 1) => EvPerCellPart = 0

\* A board was scored that has a non-marked common divisor of two positive
\* targets, a non-marked divisor of exactly one target, and a marked cell
\* that divides both its targets.
C20_Witness ==
    /\ ev.pc = "done"
    /\ \E p \in EvPositions :
           /\ ev.solution_grid[p[1]][p[2]] = 0
           /\ ev.col_targets[p[2]] > 0
           /\ ev.row_targets[p[1]] % ev.board[p[1]][p[2]] = 0
           /\ ev.col_targets[p[2]] % ev.board[p[1]][p[2]] = 0
    /\ \E p \in EvPositions :
           /\ ev.solution_grid[p[1]][p[2]] = 0
           /\ ev.col_targets[p[2]] > 0
           /\ (ev.row_targets[p[1]] % ev.board[p[1]][p[2]] = 0)
                  # (ev.col_targets[p[2]] % ev.board[p[1]][p[2]] = 0)
    /\ \E p \in EvPositions :
           /\ ev.solution_grid[p[1]][p[2]] = 1
           /\ ev.col_targets[p[2]] % ev.board[p[1]][p[2]] = 0
           /\ ev.row_targets[p[1]] % ev.board[p[1]][p[2]] = 0

\* The values and the digit combined under the operation of the puzzle.
RECURSIVE CombinedWith(_, _, _)
CombinedWith(values, digit, operation) ==
    IF values = <<>> THEN digit
    ELSE IF operation = "*"
    THEN values[1] * CombinedWith(Tail(values), digit, operation)
    ELSE values[1] + CombinedWith(Tail(values), digit, operation)

\* The non-marked cells of the board under generation.
GenDecoyCells ==
    {p \in (1..GenSize) \X (1..GenSize) : gen.solution_grid[p[1]][p[2]] = 0}

\* C21: in the second pass of hard mode a candidate digit receives the +120
\* row bonus exactly when it combines with the other marked cells of its row,
\* under the operator of the puzzle, to the row target, and the +120 column
\* bonus exactly when it does so with the marked cells of its column and the
\* column target.
C21_BonusUnderPuzzleOperator ==
    gen.pc = "second" =>
        \A p \in GenDecoyCells : \A digit \in valid_digits(gen.operation) :
            /\ FalsePathBonus(digit, gen.row_solutions[p[1]],
                              MarkedRowValues(gen.board, gen.solution_grid, p[1], p[2])) = 120
                   <=> CombinedWith(MarkedRowValues(gen.board, gen.solution_grid, p[1], p[2]),
                                    digit, gen.operation) = gen.row_solutions[p[1]]
            /\ FalsePathBonus(digit, gen.col_targets[p[2]],
                              MarkedColValues(gen.board, gen.solution_grid, p[1], p[2])) = 120
                   <=> CombinedWith(MarkedColValues(gen.board, gen.solution_grid, p[1], p[2]),
                                    digit, gen.operation) = gen.col_targets[p[2]]

\* The position of the first mask of least count in the list.
FirstOfLeastCount(list) ==
    CHOOSE k \in 1..Len(list) :
        /\ \A j \in 1..Len(list) : MarkCount(MarksOf(list[k])) <= MarkCount(MarksOf(list[j]))
        /\ \A j \in 1..(k - 1) : MarkCount(MarksOf(list[j])) > MarkCount(MarksOf(list[k]))

SvValidated ==
    validate_manual_input(sv.board, sv.target_rows, sv.target_cols, sv.operation).valid

\* C23: the three traversals agree on every validated input: the list of
\* find_all_solutions equals the all_solutions list of /solve, in the same
\* order, and the optimal mask and count solve_manual_puzzle picks from it,
\* the first mask of least count in list order, are the mask and count
\* solve_minimal leaves in best_solution.
C23_TraversalsAgree ==
    (sv.pc = "done" /\ SvValidated) =>
        /\ sv.manual.all_solutions = sv.solve.all_solutions
        /\ sv.manual.all_solutions = <<>> <=> sv.best_solution[2] = NONE
        /\ sv.manual.all_solutions # <<>> =>
               /\ sv.manual.optimal_solution
                      = sv.manual.all_solutions[FirstOfLeastCount(sv.manual.all_solutions)]
               /\ sv.manual.optimal_solution = sv.best_solution[2]
               /\ sv.manual.marked_count = sv.best_solution[1]
               /\ sv.solve.solution = sv.best_solution[2]
               /\ sv.solve.marked_count = sv.best_solution[1]

\* A validated input with several solutions of the least count.
C23_Witness ==
    /\ sv.pc = "done"
    /\ SvValidated
    /\ \E j, k \in 1..Len(sv.manual.all_solutions) :
           /\ j < k
           /\ sv.manual.all_solutions[j] = sv.best_solution[2]
           /\ count_marked(sv.manual.all_solutions[k]) = sv.best_solution[1]

\* The embedded mask meets every row equation of the board, and every column
\* equation of a column that has a marked cell.
EmbeddedMaskHolds(board, solution_grid, row_targets, col_targets, operation) ==
    /\ \A r \in 1..GenSize :
           CombineAt(board[r], {c - 1 : c \in {k \in 1..GenSize : solution_grid[r][k] = 1}},
                     OpOf(operation)) = row_targets[r]
    /\ \A c \in 1..GenSize :
           MarkedRowsUpTo(solution_grid, c, GenSize) # {} =>
               CombineAt(ColumnOf(board, c), MarkedRowsUpTo(solution_grid, c, GenSize),
                         OpOf(operation)) = col_targets[c]

\* C24: the second pass of hard mode changes only the values of non-marked
\* cells: the embedded mask, the values of the marked cells, the row targets
\* and the column targets are as before it, and the embedded mask meets the
\* same row and column equations after the pass as before it.
C24_SecondPassKeepsSolution ==
    [][(gen.pc = "second" /\ gen'.pc = "returned") =>
          /\ gen'.solution_grid = gen.solution_grid
          /\ gen'.row_solutions = gen.row_solutions
          /\ gen'.col_targets = gen.col_targets
          /\ \A r, c \in 1..GenSize :
                 gen.solution_grid[r][c] = 1 => gen'.board[r][c] = gen.board[r][c]
          /\ EmbeddedMaskHolds(gen.board, gen.solution_grid, gen.row_solutions,
                               gen.col_targets, gen.operation)
          /\ EmbeddedMaskHolds(gen'.board, gen'.solution_grid, gen'.row_solutions,
                               gen'.col_targets, gen'.operation)]_vars

\* The second pass returned a board in which it replaced a decoy.
C24_Witness ==
    /\ gen.pc = "returned"
    /\ gen.difficulty = "hard"
    /\ EmbeddedMaskHolds(gen.board, gen.solution_grid, gen.row_solutions,
                         gen.col_targets, gen.operation)
    /\ \E r, c \in 1..GenSize :
           gen.solution_grid[r][c] = 0 /\ gen.board[r][c] # LowDigit

\* C28: in every puzzle new_game returns, every column target is at least 1,
\* the embedded solution mask is a valid mask of the returned board and
\* targets, and marked_count, the mark count of the minimal solution, is at
\* most the number of marked cells of the embedded mask.
C28_ReturnedPuzzleEmbedsValidMask ==
    ng.pc = "returned" =>
        /\ \A c \in 1..GenSize : ng.response.target_cols[c] >= 1
        /\ IsValidMask(ng.response.board, MarksOf(ng.response.solution),
                       ng.response.target_rows, ng.response.target_cols,
                       OpOf(ng.response.operation))
        /\ ng.response.marked_count <= MarkCount(MarksOf(ng.response.solution))

\* A returned puzzle with a row in which a decoy equals a marked value, so
\* that the row has several candidates, the minimal solution having as many
\* marks as the embedded mask.
C28_Witness ==
    /\ ng.pc = "returned"
    /\ ng.response.marked_count = MarkCount(MarksOf(ng.response.solution))
    /\ \E r, c, d \in 1..GenSize :
           /\ ng.response.solution[r][c] = 1
           /\ ng.response.solution[r][d] = 0
           /\ ng.response.board[r][c] = ng.response.board[r][d]

(***************************************************************************)
(* Specification SpecGame: the game session of the archived applications,  *)
(* the console one (archive/main.py, gm.app = "cli") and the window one    *)
(* (archive/gui_app.py, gm.app = "gui").  gm.last is the operation the     *)
(* player asked last, gm.hint the cell the last hint gave.                 *)
(***************************************************************************)
\* The puzzles a session is started on.
GameInputs ==
    {inp \in SmallInputs : inp.operation = "+" /\ inp.target_rows = inp.target_cols}

GameCells == {<<i, j>> : i \in 0..(NRows - 1), j \in 0..(NCols - 1)}

\* Hints taken column by column.
show_hint_column_major(solution_grid, revealed_hints) ==
    LET open == {c \in GameCells :
                    solution_grid[c[1] + 1][c[2] + 1] = 1 /\ c \notin revealed_hints}
    IN  IF open = {} THEN NONE
        ELSE CHOOSE c \in open :
                 \A d \in open : c[2] < d[2] \/ (c[2] = d[2] /\ c[1] <= d[1])

\* The loops of show_hint: the first (i, j), i outermost, that is marked and
\* not in revealed_hints, or None.
show_hint(solution_grid, revealed_hints) ==
    LET open == {c \in GameCells :
                    solution_grid[c[1] + 1][c[2] + 1] = 1 /\ c \notin revealed_hints}
    IN  IF open = {} THEN NONE
        ELSE CHOOSE c \in open :
                 \A d \in open : c[1] < d[1] \/ (c[1] = d[1] /\ c[2] <= d[2])

GmInit ==
    /\ gm \in {[pc |-> "menu", app |-> app, solution_grid |-> NONE, user_grid |-> NONE,
                revealed_hints |-> {}, hint |-> NONE, correct |-> NONE,
                last |-> <<"none">>] : app \in {"cli", "gui"}}
    /\ fm = FmIdle
    /\ cv = CvIdle
    /\ sv = SvIdle
    /\ gen = GenIdle
    /\ ng = NgIdle
    /\ ev = EvIdle
    /\ calls = CallsIdle

\* run_game (console) and start_game (window): the hints are emptied, the
\* puzzle is solved, and without a solution the menu comes back.
GmStart ==
    /\ gm.pc = "menu"
    /\ \E inp \in GameInputs :
       \E outcome \in {IF gm.app = "cli"
                       THEN run_game(inp.board, inp.target_rows, inp.target_cols,
                                     OpOf(inp.operation)).best_solution
                       ELSE SolveGenerated(inp.board, inp.target_rows, inp.target_cols,
                                           inp.operation)} :
          gm' = [gm EXCEPT !.revealed_hints = {},
                           !.user_grid = IF gm.app = "gui" THEN ZeroGrid(NRows, NCols)
                                         ELSE gm.user_grid,
                           !.solution_grid = IF outcome[2] = NONE
                                             THEN gm.solution_grid ELSE outcome[2],
                           !.pc = IF outcome[2] = NONE THEN "menu" ELSE "playing",
                           !.last = <<"start">>]
    /\ UNCHANGED <<fm, cv, sv, gen, ng, ev, calls>>

\* Menu choice 2 (console) and the Hint button (window).
GmShowHint ==
    /\ gm.pc = "playing"
    /\ \E cell \in {show_hint(gm.solution_grid, gm.revealed_hints)} :
          gm' = [gm EXCEPT !.revealed_hints = IF cell = NONE THEN gm.revealed_hints
                                              ELSE gm.revealed_hints \cup {cell},
                           !.hint = cell,
                           !.last = <<"hint">>]
    /\ UNCHANGED <<fm, cv, sv, gen, ng, ev, calls>>

\* A click on cell (i, j) of the window.
GmToggleCell ==
    /\ gm.pc = "playing"
    /\ gm.app = "gui"
    /\ \E cell \in GameCells :
          gm' = [gm EXCEPT !.user_grid =
                               IF cell \in gm.revealed_hints THEN gm.user_grid
                               ELSE [gm.user_grid EXCEPT ![cell[1] + 1][cell[2] + 1] =
                                         1 - gm.user_grid[cell[1] + 1][cell[2] + 1]],
                           !.last = <<"toggle", cell>>]
    /\ UNCHANGED <<fm, cv, sv, gen, ng, ev, calls>>

\* The Show Solution button.
GmShowSolution ==
    /\ gm.pc = "playing"
    /\ gm.app = "gui"
    /\ gm' = [gm EXCEPT !.user_grid = gm.solution_grid, !.last = <<"solution">>]
    /\ UNCHANGED <<fm, cv, sv, gen, ng, ev, calls>>

\* The Check My Solution button.
GmCheckSolution ==
    /\ gm.pc = "playing"
    /\ gm.app = "gui"
    /\ gm' = [gm EXCEPT !.correct = (gm.user_grid = gm.solution_grid),
                        !.last = <<"check">>]
    /\ UNCHANGED <<fm, cv, sv, gen, ng, ev, calls>>

\* Menu choice 4 (console) and the Back to Menu button (window).
GmBackToMenu ==
    /\ gm.pc = "playing"
    /\ gm' = [gm EXCEPT !.pc = "menu", !.last = <<"menu">>]
    /\ UNCHANGED <<fm, cv, sv, gen, ng, ev, calls>>

GmNext ==
    \/ GmStart
    \/ GmShowHint
    \/ GmToggleCell
    \/ GmShowSolution
    \/ GmCheckSolution
    \/ GmBackToMenu

SpecGame == GmInit /\ [][GmNext]_vars

\* The marked cells of the solution mask of the session.
GmMarked == {c \in GameCells : gm.solution_grid[c[1] + 1][c[2] + 1] = 1}

\* Cell c comes before cell d in row-major order.
RowMajorBefore(c, d) == c[1] < d[1] \/ (c[1] = d[1] /\ c[2] < d[2])

\* C22: a hint reveals exactly one cell, the first marked cell in row-major
\* order that is not yet revealed; it never reveals an unmarked cell nor a
\* cell twice; once every marked cell is revealed, which takes as many hints
\* as there are marked cells, a hint reveals nothing; and a new game begins
\* with no cell revealed.
C22_HintsInRowMajorOrder ==
    /\ [](gm.pc = "playing" => gm.revealed_hints \subseteq GmMarked)
    /\ [][(gm.pc = "playing" /\ gm'.last = <<"hint">>) =>
             IF gm.revealed_hints = GmMarked
             THEN gm'.revealed_hints = gm.revealed_hints /\ gm'.hint = NONE
             ELSE /\ gm'.hint \in GmMarked \ gm.revealed_hints
                  /\ \A c \in GmMarked \ gm.revealed_hints :
                         c = gm'.hint \/ RowMajorBefore(gm'.hint, c)
                  /\ gm'.revealed_hints = gm.revealed_hints \cup {gm'.hint}
                  /\ Cardinality(gm'.revealed_hints) = Cardinality(gm.revealed_hints) + 1]_vars
    /\ [][gm'.last = <<"start">> => gm'.revealed_hints = {}]_vars

\* Every marked cell of a mask of several marks has been revealed, in either
\* application, and one more hint was asked.
C22_Witness ==
    /\ gm.pc = "playing"
    /\ gm.last = <<"hint">>
    /\ gm.hint = NONE
    /\ gm.revealed_hints = GmMarked
    /\ Cardinality(GmMarked) >= 3

\* The grid the clicks on the cells of T leave.
Toggled(grid, T) ==
    [r \in 1..NRows |-> [c \in 1..NCols |->
        IF <<r - 1, c - 1>> \in T THEN 1 - grid[r][c] ELSE grid[r][c]]]

\* Some clicks on cells lead to the grid check_solution accepts; a click on
\* a revealed cell changes nothing, so the clicks are on the other cells.
TogglesReachSolution ==
    \E T \in SUBSET (GameCells \ gm.revealed_hints) :
        Toggled(gm.user_grid, T) = gm.solution_grid

\* C29: in the window game, after any hints and clicks the player can still
\* reach, by clicks on cells alone, a grid that check_solution accepts, and
\* a click on a cell revealed as a hint leaves user_grid as it is.
C29_SolutionReachableByToggles ==
    /\ []((gm.pc = "playing" /\ gm.app = "gui") => TogglesReachSolution)
    /\ [][(gm.pc = "playing" /\ gm'.last[1] = "toggle" /\ gm'.last[2] \in gm.revealed_hints)
             => gm'.user_grid = gm.user_grid]_vars

(***************************************************************************)
(* Specifications SpecSearch and SpecConcurrent: the backtracking search   *)
(* step by step.  A call is one of solve_minimal as new_game makes it      *)
(* (kind "minimal"), solve_and_collect of /solve (kind "collect") and      *)
(* find_solutions_recursive of the manual solver (kind "all").  Its        *)
(* objects, the working grid, best_solution and all_solutions, live in     *)
(* calls.heap under the references the call holds; calls.procs[p].stack is *)
(* the recursion, a frame per active invocation with its row_idx and the   *)
(* position next of the candidate the for-loop takes next.  One step is    *)
(* the terminal branch of an invocation, one pass through the loop body,   *)
(* or the end of a loop with the reset of the row.                         *)
(***************************************************************************)
\* Every call working on the objects of call 1.
SharedObject(p, name) == <<1, name>>

\* empty_grid, best_solution and all_solutions are built by the call itself.
NewObject(p, name) == <<p, name>>

\* best_solution[1] holding the working grid itself.
AliasedMask(heap, grid_ref) == [alias |-> TRUE, of |-> grid_ref]

\* [row[:] for row in grid]
CopiedMask(heap, grid_ref) == [alias |-> FALSE, of |-> heap[grid_ref]]

\* The grid a stored mask stands for.
MaskValue(heap, mask) == IF mask.alias THEN heap[mask.of] ELSE mask.of

\* The recursive call on the same row.
SameRow(row_idx) == row_idx

\* row_idx + 1 of the recursive call
NextRow(row_idx) == row_idx + 1

\* The row left as the last candidate set it.
KeepRow(row, ncols) == row

\* grid[row_idx] = [0] * len(board[0])
ResetRow(row, ncols) == ZeroRow(ncols)

\* The objects a call starts with.
FreshHeap(heap, p, inp) ==
    [ref \in DOMAIN heap \cup {NewObject(p, "grid"), NewObject(p, "best"),
                               NewObject(p, "all")} |->
        IF ref = NewObject(p, "grid") THEN ZeroGrid(Len(inp.board), Len(inp.board[1]))
        ELSE IF ref = NewObject(p, "best") THEN <<INF, NONE>>
        ELSE IF ref = NewObject(p, "all") THEN <<>>
        ELSE heap[ref]]

\* The call at its entry, row_possibilities computed; find_all_solutions
\* returns [] at once when a row has no candidate.
StartedCall(p, kind, inp) ==
    LET row_possibilities == RowPossibilities(inp.board, inp.target_rows, OpOf(inp.operation))
        no_candidates == \E i \in 1..Len(row_possibilities) : Len(row_possibilities[i]) = 0
    IN  [kind |-> kind, board |-> inp.board, target_rows |-> inp.target_rows,
         target_cols |-> inp.target_cols, operation |-> inp.operation,
         grid |-> NewObject(p, "grid"), best_solution |-> NewObject(p, "best"),
         all_solutions |-> NewObject(p, "all"),
         stack |-> IF kind = "all" /\ no_candidates THEN <<>>
                   ELSE <<[row_idx |-> 0, next |-> 1]>>,
         pc |-> IF kind = "all" /\ no_candidates THEN "returned" ELSE "running"]

\* The frame on top of the stack and the candidates of its row.
TopFrame(proc) == proc.stack[Len(proc.stack)]

CandidatesOf(proc, row_idx) ==
    find_matching_subsets(proc.board[row_idx + 1], proc.target_rows[row_idx + 1],
                          OpOf(proc.operation))

\* The return of the invocation on top of the stack.
Returned(proc) ==
    [proc EXCEPT !.stack = SubSeq(proc.stack, 1, Len(proc.stack) - 1),
                 !.pc = IF Len(proc.stack) = 1 THEN "returned" ELSE "running"]

\* if row_idx == len(board): the terminal branch, then return.
CallsTerminal(p) ==
    /\ calls.procs[p].pc = "running"
    /\ TopFrame(calls.procs[p]).row_idx = Len(calls.procs[p].board)
    /\ \E proc \in {calls.procs[p]} :
       \E grid \in {calls.heap[proc.grid]} :
       \E best \in {calls.heap[proc.best_solution]} :
       \E valid \in {is_valid_columns(grid, proc.board, proc.target_cols,
                                      OpOf(proc.operation))} :
          calls' = [calls EXCEPT
              !.heap[proc.best_solution] =
                  IF /\ proc.kind \in {"minimal", "collect"}
                     /\ valid
                     /\ Less(count_marked(grid), best[1])
                  THEN <<count_marked(grid), CopiedMask(calls.heap, proc.grid)>>
                  ELSE best,
              !.heap[proc.all_solutions] =
                  IF proc.kind \in {"collect", "all"} /\ valid
                  THEN Append(calls.heap[proc.all_solutions], grid)
                  ELSE calls.heap[proc.all_solutions],
              !.procs[p] = Returned(proc)]
    /\ UNCHANGED <<fm, cv, sv, gen, ng, ev, gm>>

\* One pass through the loop body: the candidate is written to the row and,
\* if the columns still can be met, the next row is entered.
CallsCandidate(p) ==
    /\ calls.procs[p].pc = "running"
    /\ \E proc \in {calls.procs[p]} :
       \E top \in {TopFrame(proc)} :
          /\ top.row_idx < Len(proc.board)
          /\ top.next <= Len(CandidatesOf(proc, top.row_idx))
          /\ \E placed \in {[calls.heap[proc.grid] EXCEPT ![top.row_idx + 1] =
                                RowOf(CandidatesOf(proc, top.row_idx)[top.next],
                                      Len(proc.board[1]))]} :
             \E looped \in {[proc.stack EXCEPT ![Len(proc.stack)].next = top.next + 1]} :
                calls' = [calls EXCEPT
                    !.heap[proc.grid] = placed,
                    !.procs[p].stack =
                        IF is_partial_valid_columns(placed, top.row_idx, proc.board,
                                                    proc.target_cols, OpOf(proc.operation))
                        THEN Append(looped, [row_idx |-> NextRow(top.row_idx), next |-> 1])
                        ELSE looped]
    /\ UNCHANGED <<fm, cv, sv, gen, ng, ev, gm>>

\* The loop is over: the row is reset and the invocation returns.
CallsExhausted(p) ==
    /\ calls.procs[p].pc = "running"
    /\ \E proc \in {calls.procs[p]} :
       \E top \in {TopFrame(proc)} :
          /\ top.row_idx < Len(proc.board)
          /\ top.next > Len(CandidatesOf(proc, top.row_idx))
          /\ calls' = [calls EXCEPT
                 !.heap[proc.grid][top.row_idx + 1] =
                     ResetRow(calls.heap[proc.grid][top.row_idx + 1], Len(proc.board[1])),
                 !.procs[p] = Returned(proc)]
    /\ UNCHANGED <<fm, cv, sv, gen, ng, ev, gm>>

CallsNext ==
    \E p \in DOMAIN calls.procs :
        \/ CallsTerminal(p)
        \/ CallsCandidate(p)
        \/ CallsExhausted(p)

\* The inputs of the stepwise search: the small boards, and for the manual
\* solver, which takes 5x5 boards only, the same embedded in a 5x5 board.
SearchInputs(kind) ==
    IF kind = "all" THEN {Pad5(inp) : inp \in GameInputs}
    ELSE {inp \in SmallInputs : inp.target_rows = inp.target_cols}

SearchInit ==
    /\ \E kind \in {"minimal", "collect", "all"} :
       \E inp \in SearchInputs(kind) :
          calls = [pc |-> "search",
                   heap |-> FreshHeap(<<>>, 1, inp),
                   procs |-> <<StartedCall(1, kind, inp)>>]
    /\ fm = FmIdle
    /\ cv = CvIdle
    /\ sv = SvIdle
    /\ gen = GenIdle
    /\ ng = NgIdle
    /\ ev = EvIdle
    /\ gm = GmIdle

SpecSearch == SearchInit /\ [][CallsNext]_vars

\* The search under the scheduling of a sequential program: a call that can
\* take a step takes it.
SpecSearchFair == SpecSearch /\ WF_vars(CallsNext)

\* The calls in progress or returned, and the objects of call p.
Procs == DOMAIN calls.procs

GridOf(p) == calls.heap[calls.procs[p].grid]

BestOf(p) == calls.heap[calls.procs[p].best_solution]

\* C26: solve_minimal terminates: every search returns; along the recursion
\* the row index strictly increases from one invocation to the one it
\* called, the depth of the recursion never exceeds the number of rows plus
\* one, and during a visit of a row the loop only moves forward, a pass
\* taking the candidate at the loop position and advancing it by one, so
\* that each candidate is tried at most once per visit.
C26_SearchTerminates ==
    /\ <>(calls.pc = "search" /\ \A p \in Procs : calls.procs[p].pc = "returned")
    /\ [](calls.pc = "search" =>
              \A p \in Procs :
                  /\ Len(calls.procs[p].stack) <= Len(calls.procs[p].board) + 1
                  /\ \A i \in 1..(Len(calls.procs[p].stack) - 1) :
                         calls.procs[p].stack[i].row_idx
                             < calls.procs[p].stack[i + 1].row_idx
                  /\ \A i \in 1..Len(calls.procs[p].stack) :
                         calls.procs[p].stack[i].row_idx \in 0..Len(calls.procs[p].board))
    /\ [][calls.pc = "search" =>
             \A p \in Procs :
             \A i \in 1..Len(calls.procs[p].stack) :
                 i <= Len(calls'.procs[p].stack) =>
                     \E before \in {calls.procs[p].stack[i]} :
                     \E after \in {calls'.procs[p].stack[i]} :
                         /\ after.row_idx = before.row_idx
                         /\ after.next \in {before.next, before.next + 1}
                         /\ after.next = before.next + 1 =>
                                /\ i = Len(calls.procs[p].stack)
                                /\ calls'.heap[calls.procs[p].grid][before.row_idx + 1]
                                       = RowOf(CandidatesOf(calls.procs[p],
                                                            before.row_idx)[before.next],
                                               Len(calls.procs[p].board[1]))]_vars

\* A search of solve_minimal at its full depth, in the terminal branch, on
\* a later candidate of the first row.
C26_Witness ==
    /\ calls.pc = "search"
    /\ calls.procs[1].kind = "minimal"
    /\ calls.procs[1].pc = "running"
    /\ Len(calls.procs[1].stack) = Len(calls.procs[1].board) + 1
    /\ calls.procs[1].stack[1].next >= 3

\* C27: at every point of the search best_solution[1] is None exactly when
\* best_solution[0] is the initial sentinel; otherwise best_solution[1] is a
\* valid complete mask and best_solution[0] its number of marked cells;
\* best_solution[0] never increases; and the stored mask is a copy: as long
\* as best_solution is not assigned, writes to the working grid do not
\* change the mask it holds.
C27_AccumulatorInvariant ==
    /\ [](calls.pc = "search" =>
              \A p \in Procs :
                  /\ BestOf(p)[2] = NONE <=> BestOf(p)[1] = INF
                  /\ BestOf(p)[2] # NONE =>
                         \E mask \in {MaskValue(calls.heap, BestOf(p)[2])} :
                             /\ IsValidMask(calls.procs[p].board, MarksOf(mask),
                                            calls.procs[p].target_rows,
                                            calls.procs[p].target_cols,
                                            OpOf(calls.procs[p].operation))
                             /\ BestOf(p)[1] = MarkCount(MarksOf(mask)))
    /\ [][calls.pc = "search" =>
             \A p \in Procs :
                 /\ calls'.heap[calls.procs[p].best_solution][1] <= BestOf(p)[1]
                 /\ (/\ BestOf(p)[2] # NONE
                     /\ calls'.heap[calls.procs[p].best_solution] = BestOf(p))
                        => MaskValue(calls'.heap, BestOf(p)[2])
                               = MaskValue(calls.heap, BestOf(p)[2])]_vars

\* A search of solve_minimal that holds a solution and has since written
\* another candidate to the working grid.
C27_Witness ==
    /\ calls.pc = "search"
    /\ calls.procs[1].kind = "minimal"
    /\ calls.procs[1].pc = "running"
    /\ BestOf(1)[2] # NONE
    /\ MaskValue(calls.heap, BestOf(1)[2]) # GridOf(1)
    /\ GridOf(1) # ZeroGrid(Len(calls.procs[1].board), Len(calls.procs[1].board[1]))

\* C30: when the top-level call on an all-zero working grid has returned the
\* working grid is all zeros again, a solution found or not; and at every
\* entry to row r the rows r and below of the working grid are all zero.
C30_WorkingGridRestored ==
    calls.pc = "search" =>
        \A p \in Procs :
            /\ calls.procs[p].pc = "returned" =>
                   \A r \in 1..Len(GridOf(p)) : \A c \in 1..Len(GridOf(p)[r]) :
                       GridOf(p)[r][c] = 0
            /\ (/\ calls.procs[p].pc = "running"
                /\ TopFrame(calls.procs[p]).next = 1)
                   => \A r \in 1..Len(GridOf(p)) : \A c \in 1..Len(GridOf(p)[r]) :
                          r > TopFrame(calls.procs[p]).row_idx => GridOf(p)[r][c] = 0

\* A search has returned with a solution, and one without.
C30_Witness ==
    /\ calls.pc = "search"
    /\ calls.procs[1].pc = "returned"
    /\ calls.procs[1].kind \in {"minimal", "all"}
    /\ \/ BestOf(1)[2] # NONE
       \/ calls.heap[calls.procs[1].all_solutions] # <<>>
    /\ Len(CandidatesOf(calls.procs[1], 0)) >= 2

\* The puzzles of the concurrent calls: the symmetric small boards with a
\* corner of 1 and equal targets, embedded in a 5x5 board.
ConcurrentInputs ==
    {Pad5(inp) : inp \in {g \in GameInputs :
                              /\ \A r \in 1..NRows : g.board[r][r] = 1
                              /\ \A r, c \in 1..NRows : g.board[r][c] = g.board[c][r]
                              /\ \A r \in 1..NRows : g.target_rows[r] = g.target_rows[1]
                              /\ g.target_rows[1] \in 1..(MaxTarget - 1)}}

\* Two requests are being served at once, each one of /new_game (its
\* solve_minimal), /solve and the manual solver, the steps of their searches
\* interleaved in any order.
ConcurrentInit ==
    /\ \E kind1, kind2 \in {"minimal", "collect", "all"} :
       \E inp1, inp2 \in ConcurrentInputs :
          calls = [pc |-> "concurrent",
                   heap |-> FreshHeap(FreshHeap(<<>>, 1, inp1), 2, inp2),
                   procs |-> <<StartedCall(1, kind1, inp1), StartedCall(2, kind2, inp2)>>]
    /\ fm = FmIdle
    /\ cv = CvIdle
    /\ sv = SvIdle
    /\ gen = GenIdle
    /\ ng = NgIdle
    /\ ev = EvIdle
    /\ gm = GmIdle

SpecConcurrent == ConcurrentInit /\ [][CallsNext]_vars

\* What call p has to give back: best_solution, the response of /solve, or
\* the list of all solutions.
ResultOf(p) ==
    LET proc == calls.procs[p]
        best == IF BestOf(p)[2] = NONE THEN BestOf(p)
                ELSE <<BestOf(p)[1], MaskValue(calls.heap, BestOf(p)[2])>>
        all == calls.heap[proc.all_solutions]
    IN  IF proc.kind = "minimal" THEN best
        ELSE IF proc.kind = "collect"
        THEN SolvePuzzleResponse([best_solution |-> best, all_solutions |-> all])
        ELSE all

\* What the same call gives back when it runs alone.
ResultAlone(p) ==
    LET proc == calls.procs[p]
    IN  IF proc.kind = "minimal"
        THEN SolveGenerated(proc.board, proc.target_rows, proc.target_cols, proc.operation)
        ELSE IF proc.kind = "collect"
        THEN solve_puzzle(proc.board, proc.target_rows, proc.target_cols, proc.operation)
        ELSE find_all_solutions(proc.board, proc.target_rows, proc.target_cols,
                                proc.operation)

\* C25: concurrent solver calls share no search state: each call has its
\* own working grid, best_solution and all_solutions, and under every
\* interleaving of two calls each call's result is the result it gives when
\* it runs alone.
C25_ConcurrentCallsIndependent ==
    calls.pc = "concurrent" =>
        /\ \A p, q \in Procs :
               p # q => {calls.procs[p].grid, calls.procs[p].best_solution,
                         calls.procs[p].all_solutions}
                        \cap {calls.procs[q].grid, calls.procs[q].best_solution,
                              calls.procs[q].all_solutions} = {}
        /\ \A p \in Procs :
               calls.procs[p].pc = "returned" => ResultOf(p) = ResultAlone(p)

\* A call has returned with a solution while the other one, on another
\* puzzle, is in the middle of its search.
C25_Witness ==
    /\ calls.pc = "concurrent"
    /\ calls.procs[1].pc = "returned"
    /\ calls.heap[calls.procs[1].all_solutions] # <<>>
    /\ calls.procs[2].pc = "running"
    /\ Len(calls.procs[2].stack) >= 3
    /\ calls.procs[2].board # calls.procs[1].board

====
